---- MODULE Spec2Model ----
(***************************************************************************)
(* Backbone Router registration manager (src/core/backbone_router/         *)
(* bbr_manager.cpp): the MLR and the DUA request handler, the role-change  *)
(* handler, the expiry timer, the reference-device hooks and the query of  *)
(* the IPv6 layer, over the multicast listeners table and the ND proxy     *)
(* table.                                                                  *)
(*                                                                         *)
(* Time is in milliseconds (TimeMilli, 32 bit).  The handlers run to       *)
(* completion: one action is one whole handler.  The record `handled` and  *)
(* the two output queues keep what the last handler was given and what it  *)
(* sent until the transport has drained them (Drain).                      *)
(***************************************************************************)
EXTENDS Integers, Sequences, FiniteSets, TLC

\* ------------------------------------------------------------------ bounds
\* Ticks of kTimerInterval the clock may advance.
MaxTicks == 1

\* Number of timer intervals over which the sweeps of the timer are followed.
MaxSweepTicks == 4

\* --------------------------------------------------------------- constants
\* The largest value of the unsigned word of timeouts and of TimeMilli.  The
\* word is 20 bits wide here instead of 32, so that every product and sum
\* stays inside the integers the model checker computes with.
UINT32_MAX == 1048575
Uint32Modulus == UINT32_MAX + 1
\* sizeof(Ip6::Address)
Ip6AddressSize == 16
\* IPv6AddressesTlv::kIPv6AddressesNumMax (15 in the stack, scaled down)
kIPv6AddressesNumMax == 2
\* IPv6AddressesTlv::kIPv6AddressesNumMin
kIPv6AddressesNumMin == 1
\* Mle::kMlrTimeoutMin, Mle::kMlrTimeoutMax, in seconds (scaled down)
kMlrTimeoutMin == 2
kMlrTimeoutMax == 3
\* config.mMlrTimeout of the Primary's backbone router config, in seconds
kMlrTimeoutDefault == 3
\* Manager::kTimerInterval, in milliseconds
kTimerInterval == 1000
\* capacity of MulticastListenersTable (scaled down)
kMulticastListenersTableSize == 2

\* A TLV that the message does not carry.
NoTlv == -1

\* otBackboneRouterState
BbrStates == {"DISABLED", "SECONDARY", "PRIMARY"}

\* ThreadStatusTlv::MlrStatus
MlrStatuses ==
    {"MlrSuccess", "MlrInvalid", "MlrNoPersistent", "MlrNoResources",
     "MlrBbrNotPrimary", "MlrGeneralFailure"}

\* ThreadStatusTlv::DuaStatus
kDuaSuccess == 0
kDuaInvalid == 2
kDuaDuplicate == 3
kDuaNoResources == 4
kDuaNotPrimary == 5
kDuaGeneralFailure == 6

\* Coap::Code
kCodeEmpty == 0
kCodeResponseMin == 64

\* --------------------------------------------------------------- addresses
\* Three multicast addresses of scope larger than realm-local and one
\* link-local multicast address, which the listener table refuses.
Ip6Addresses == {"ff04::a", "ff05::b", "ff0e::c", "ff02::1"}

IsMulticastLargerThanRealmLocal(address) == address \in {"ff04::a", "ff05::b", "ff0e::c"}

\* An element of the local array `addresses` that was never written.
Unwritten == "unwritten"

\* ------------------------------------------------------------------- state
VARIABLES
    bbrState,                 \* Get<BackboneRouter::Local>().GetState()
    commissionerSessionId,    \* Commissioner Session ID sub-TLV of the network data
    now,                      \* TimerMilli::GetNow()
    mMulticastListenersTable, \* set of [address, expireTime]
    mlrResourceAdded,         \* mMulticastListenerRegistration is a TMF resource
    duaResourceAdded,         \* mDuaRegistration is a TMF resource
    mTimerRunning,            \* mTimer.IsRunning()
    mTimerFireTime,           \* mTimer's fire time
    backboneTmfRunning,       \* mBackboneTmfAgent is started
    mMlrResponseIsSpecified,  \* reference-device hook is armed
    mMlrResponseStatus,       \* status the hook answers with
    mNdProxyTable,            \* set of [targetIid, meshLocalIid, rloc16, lastTransactionTime]
    mDuaResponseIsSpecified,  \* reference-device hook for DUA is armed
    mDuaResponseTargetMlIid,  \* mesh-local IID the hook is for, 0: unspecified
    mDuaResponseStatus,       \* uint8 the hook answers with
    stateChangedPending,      \* kEventThreadBackboneRouterStateChanged is signalled
    handled,                  \* <<>> or <<what the last handler did>>
    meshOut,                  \* messages sent on the mesh interface, not yet drained
    backboneOut               \* messages sent on the backbone interface, not yet drained

envVars == <<bbrState, stateChangedPending, commissionerSessionId, now>>
lifeVars == <<mlrResourceAdded, duaResourceAdded, mTimerRunning, mTimerFireTime,
              backboneTmfRunning>>
hookVars == <<mMlrResponseIsSpecified, mMlrResponseStatus>>
duaVars == <<mNdProxyTable, mDuaResponseIsSpecified, mDuaResponseTargetMlIid,
             mDuaResponseStatus>>
outVars == <<handled, meshOut, backboneOut>>
vars == <<envVars, lifeVars, hookVars, duaVars, outVars, mMulticastListenersTable>>

\* Get<BackboneRouter::Local>().IsPrimary()
IsPrimary == bbrState = "PRIMARY"

\* ------------------------------------------------- time (TimeMilli, uint32)
SecToMsec(sec) == (sec * 1000) % Uint32Modulus

TimeAdd(time, duration) == (time + duration) % Uint32Modulus

\* ------------------------------------------------ MulticastListenersTable
TableAddresses(table) == {e.address : e \in table}

\* MulticastListenersTable::Add: [error, table]
TableAdd(table, address, expireTime) ==
    IF ~IsMulticastLargerThanRealmLocal(address)
    THEN [error |-> "INVALID_ARGS", table |-> table]
    ELSE IF address \in TableAddresses(table)
    THEN [error |-> "NONE",
          table |-> {e \in table : e.address # address}
                        \cup {[address |-> address, expireTime |-> expireTime]}]
    ELSE IF Cardinality(table) >= kMulticastListenersTableSize
    THEN [error |-> "NO_BUFS", table |-> table]
    ELSE [error |-> "NONE",
          table |-> table \cup {[address |-> address, expireTime |-> expireTime]}]

\* MulticastListenersTable::Remove
TableRemove(table, address) == {e \in table : e.address # address}

\* MulticastListenersTable::Expire
TableExpire(table, time) == {e \in table : e.expireTime > time}

\* MulticastListenersTable::Clear
TableClear(table) == {}

\* ------------------------------------------------------------ MLR requests
\* Commissioner Session ID TLV values and Timeout TLV values (seconds) of the
\* generated requests.
SessionIds == {1, 2}

TimeoutValues == {0, 1, kMlrTimeoutMax, kMlrTimeoutMax + 1000, UINT32_MAX}

\* Every list of up to kIPv6AddressesNumMax addresses, and the lists of one
\* address more that repeat one address.
AddressLists ==
    UNION {[1..n -> Ip6Addresses] : n \in 0..kIPv6AddressesNumMax}
        \cup {[i \in 1..(kIPv6AddressesNumMax + 1) |-> a] : a \in Ip6Addresses}

\* The IPv6 Addresses TLV of a request: absent, a whole number of addresses,
\* or a value with 8 bytes after the last whole address.
AddressTlvs ==
    {[present |-> FALSE, list |-> <<>>, trailing |-> 0]}
        \cup {[present |-> TRUE, list |-> l, trailing |-> 0] : l \in AddressLists}
        \cup {[present |-> TRUE, list |-> l, trailing |-> 8] :
                l \in {m \in AddressLists : Len(m) <= 1}}

\* Every confirmable POST over these TLVs, and the requests that are not a
\* confirmable POST and carry one address.
MlrRequests ==
    [confirmablePost : {TRUE},
     sessionId : {NoTlv} \cup SessionIds,
     timeout : {NoTlv} \cup TimeoutValues,
     addresses : AddressTlvs]
        \cup [confirmablePost : {FALSE},
              sessionId : {NoTlv} \cup SessionIds,
              timeout : {NoTlv} \cup TimeoutValues,
              addresses : {t \in AddressTlvs : Len(t.list) = 1 /\ t.trailing = 0}]

\* addressesLength, as ThreadTlv::FindTlvValueOffset returns it
AddressesLength(tlv) == Len(tlv.list) * Ip6AddressSize + tlv.trailing

\* ------------------------------------- HandleMulticastListenerRegistration
Min2(a, b) == IF a < b THEN a ELSE b

Max2(a, b) == IF a > b THEN a ELSE b

\* Fault: the timeout is not raised to kMlrTimeoutMin.
NormalizeTimeout_MinOnly(timeout) == Min2(timeout, kMlrTimeoutMax)

\* OT_MIN with kMlrTimeoutMax, then OT_MAX with kMlrTimeoutMin
NormalizeTimeout(timeout) ==
    Max2(Min2(timeout, kMlrTimeoutMax), kMlrTimeoutMin)

\* Fault: the Timeout TLV is processed whether or not there is a session TLV.
ProcessTimeoutTlv_WithoutSession(req, hasCommissionerSessionIdTlv) ==
    req.timeout # NoTlv

\* processTimeoutTlv
ProcessTimeoutTlv(req, hasCommissionerSessionIdTlv) ==
    hasCommissionerSessionIdTlv /\ req.timeout # NoTlv

\* Fault: a later failure overwrites the status.
FirstError_LastWins(status, failure) == failure

\* status is overwritten only while it is kMlrSuccess
FirstError(status, failure) == IF status = "MlrSuccess" THEN failure ELSE status

\* Fault: OT_ERROR_NO_BUFS is taken for a success.
AddOutcome_NoBufsIsSuccess(status, error) ==
    CASE error = "INVALID_ARGS" ->
            [failed |-> TRUE, asserted |-> FALSE,
             status |-> FirstError(status, "MlrInvalid")]
      [] OTHER -> [failed |-> FALSE, asserted |-> FALSE, status |-> status]

\* the switch on the result of mMulticastListenersTable.Add
AddOutcome(status, error) ==
    CASE error = "NONE" -> [failed |-> FALSE, asserted |-> FALSE, status |-> status]
      [] error = "INVALID_ARGS" ->
            [failed |-> TRUE, asserted |-> FALSE,
             status |-> FirstError(status, "MlrInvalid")]
      [] error = "NO_BUFS" ->
            [failed |-> TRUE, asserted |-> FALSE,
             status |-> FirstError(status, "MlrNoResources")]
      [] OTHER -> [failed |-> TRUE, asserted |-> TRUE, status |-> status]

\* addresses[index] = address; a write outside the array is flagged
ArrayWrite(st, index, address) ==
    IF index \in DOMAIN st.addresses
    THEN [st EXCEPT !.addresses[index] = address]
    ELSE [st EXCEPT !.outOfBounds = TRUE]

\* Fault: failedAddressNum is incremented before the index is computed.
PutFailed_PreIncrement(st, address) ==
    [ArrayWrite(st, st.failedAddressNum + 1, address)
        EXCEPT !.failedAddressNum = st.failedAddressNum + 1]

\* addresses[failedAddressNum++] = address
PutFailed(st, address) ==
    [ArrayWrite(st, st.failedAddressNum, address)
        EXCEPT !.failedAddressNum = st.failedAddressNum + 1]

\* Fault: successAddressNum is incremented after the index is computed.
PutSuccess_PostIncrement(st, address) ==
    [ArrayWrite(st, kIPv6AddressesNumMax - st.successAddressNum, address)
        EXCEPT !.successAddressNum = st.successAddressNum + 1]

\* addresses[kIPv6AddressesNumMax - (++successAddressNum)] = address
PutSuccess(st, address) ==
    [ArrayWrite(st, kIPv6AddressesNumMax - (st.successAddressNum + 1), address)
        EXCEPT !.successAddressNum = st.successAddressNum + 1]

\* Fault: an address is put with the registered ones whatever the add returned.
AddAddress_AlwaysForwarded(st, address, expireTime) ==
    LET added == TableAdd(st.table, address, expireTime)
        outcome == AddOutcome(st.status, added.error)
        next == [st EXCEPT !.table = added.table,
                           !.status = outcome.status,
                           !.asserted = st.asserted \/ outcome.asserted]
    IN  PutSuccess(next, address)

\* one iteration of the address loop, timeout # 0
AddAddress(st, address, expireTime) ==
    LET added == TableAdd(st.table, address, expireTime)
        outcome == AddOutcome(st.status, added.error)
        next == [st EXCEPT !.table = added.table,
                           !.status = outcome.status,
                           !.asserted = st.asserted \/ outcome.asserted]
    IN  IF outcome.failed THEN PutFailed(next, address) ELSE PutSuccess(next, address)

\* Fault: a timeout of 0 removes nothing.
LoopBody_NoRemove(st, address, timeout, expireTime) ==
    IF timeout = 0
    THEN st
    ELSE AddAddress(st, address, expireTime)

\* one iteration of the address loop
LoopBody(st, address, timeout, expireTime) ==
    IF timeout = 0
    THEN [st EXCEPT !.table = TableRemove(st.table, address)]
    ELSE AddAddress(st, address, expireTime)

\* the address loop, from the i-th address of the list on
RECURSIVE AddressLoop(_, _, _, _, _)
AddressLoop(st, list, i, timeout, expireTime) ==
    IF i > Len(list)
    THEN st
    ELSE AddressLoop(LoopBody(st, list[i], timeout, expireTime), list, i + 1,
                     timeout, expireTime)

\* Fault: the timeout is added in seconds, without SecToMsec.
ExpireTime_Seconds(time, timeout) == TimeAdd(time, timeout)

\* expireTime
ExpireTime(time, timeout) == TimeAdd(time, SecToMsec(timeout))

\* The locals of the handler on entry.
Locals(table) ==
    [error |-> "NONE", status |-> "MlrSuccess", table |-> table,
     addresses |-> [i \in 0..(kIPv6AddressesNumMax - 1) |-> Unwritten],
     failedAddressNum |-> 0, successAddressNum |-> 0,
     timeout |-> NoTlv, hookConsumed |-> FALSE,
     asserted |-> FALSE, outOfBounds |-> FALSE]

\* Fault: a timeout of UINT32_MAX is not refused.
ApplyAddresses_NoSentinel(st, req, time, processTimeoutTlv) ==
    IF ~processTimeoutTlv
    THEN AddressLoop([st EXCEPT !.timeout = kMlrTimeoutDefault],
                     req.addresses.list, 1, kMlrTimeoutDefault,
                     ExpireTime(time, kMlrTimeoutDefault))
    ELSE LET timeout == IF req.timeout # 0
                        THEN NormalizeTimeout(req.timeout)
                        ELSE req.timeout
         IN  AddressLoop([st EXCEPT !.timeout = timeout], req.addresses.list, 1,
                         timeout, ExpireTime(time, timeout))

\* from the choice of the timeout to the end of the address loop
ApplyAddresses(st, req, time, processTimeoutTlv) ==
    IF ~processTimeoutTlv
    THEN AddressLoop([st EXCEPT !.timeout = kMlrTimeoutDefault],
                     req.addresses.list, 1, kMlrTimeoutDefault,
                     ExpireTime(time, kMlrTimeoutDefault))
    ELSE IF ~(req.timeout < UINT32_MAX)
    THEN [st EXCEPT !.status = "MlrNoPersistent", !.timeout = req.timeout]
    ELSE LET timeout == IF req.timeout # 0
                        THEN NormalizeTimeout(req.timeout)
                        ELSE req.timeout
         IN  AddressLoop([st EXCEPT !.timeout = timeout], req.addresses.list, 1,
                         timeout, ExpireTime(time, timeout))

\* Fault: the number of addresses is not checked against kIPv6AddressesNumMax.
CheckAddresses_NoCountCheck(st, req, time, processTimeoutTlv) ==
    IF ~req.addresses.present
    THEN [st EXCEPT !.error = "PARSE"]
    ELSE IF AddressesLength(req.addresses) % Ip6AddressSize # 0
    THEN [st EXCEPT !.status = "MlrGeneralFailure"]
    ELSE ApplyAddresses(st, req, time, processTimeoutTlv)

\* Fault: a list of fewer than kIPv6AddressesNumMin addresses is refused.
CheckAddresses_MinCount(st, req, time, processTimeoutTlv) ==
    IF ~req.addresses.present
    THEN [st EXCEPT !.error = "PARSE"]
    ELSE IF AddressesLength(req.addresses) % Ip6AddressSize # 0
    THEN [st EXCEPT !.status = "MlrGeneralFailure"]
    ELSE IF ~(AddressesLength(req.addresses) \div Ip6AddressSize <= kIPv6AddressesNumMax)
    THEN [st EXCEPT !.status = "MlrGeneralFailure"]
    ELSE IF AddressesLength(req.addresses) \div Ip6AddressSize < kIPv6AddressesNumMin
    THEN [st EXCEPT !.status = "MlrGeneralFailure"]
    ELSE ApplyAddresses(st, req, time, processTimeoutTlv)

\* the IPv6 Addresses TLV checks
CheckAddresses(st, req, time, processTimeoutTlv) ==
    IF ~req.addresses.present
    THEN [st EXCEPT !.error = "PARSE"]
    ELSE IF AddressesLength(req.addresses) % Ip6AddressSize # 0
    THEN [st EXCEPT !.status = "MlrGeneralFailure"]
    ELSE IF ~(AddressesLength(req.addresses) \div Ip6AddressSize <= kIPv6AddressesNumMax)
    THEN [st EXCEPT !.status = "MlrGeneralFailure"]
    ELSE ApplyAddresses(st, req, time, processTimeoutTlv)

\* Fault: a registered session id is not compared with the one of the request.
CheckSession_NotCompared(st, req, time, session) ==
    IF req.sessionId # NoTlv
    THEN IF ~(session # NoTlv)
         THEN [st EXCEPT !.status = "MlrGeneralFailure"]
         ELSE CheckAddresses(st, req, time, ProcessTimeoutTlv(req, TRUE))
    ELSE CheckAddresses(st, req, time, ProcessTimeoutTlv(req, FALSE))

\* the Commissioner Session ID TLV check
CheckSession(st, req, time, session) ==
    IF req.sessionId # NoTlv
    THEN IF ~(session # NoTlv /\ session = req.sessionId)
         THEN [st EXCEPT !.status = "MlrGeneralFailure"]
         ELSE CheckAddresses(st, req, time, ProcessTimeoutTlv(req, TRUE))
    ELSE CheckAddresses(st, req, time, ProcessTimeoutTlv(req, FALSE))

\* Fault: the handler does not check that the router is the Primary.
MlrLocalsAtExit_NoPrimaryCheck(req, table, time, isPrimary, session, isSpecified, specifiedStatus) ==
    LET st == Locals(table)
    IN  IF ~req.confirmablePost
        THEN [st EXCEPT !.error = "PARSE"]
        ELSE IF isSpecified
        THEN [st EXCEPT !.hookConsumed = TRUE, !.status = specifiedStatus]
        ELSE CheckSession(st, req, time, session)

\* Fault: the method of the request is checked after the request is processed.
MlrLocalsAtExit_PostCheckedLast(req, table, time, isPrimary, session, isSpecified, specifiedStatus) ==
    LET st == Locals(table)
        done == IF isSpecified
                THEN [st EXCEPT !.hookConsumed = TRUE, !.status = specifiedStatus]
                ELSE IF ~isPrimary
                THEN [st EXCEPT !.status = "MlrBbrNotPrimary"]
                ELSE CheckSession(st, req, time, session)
    IN  IF ~req.confirmablePost THEN [done EXCEPT !.error = "PARSE"] ELSE done

\* Fault: the role is checked before the reference-device hook.
MlrLocalsAtExit_PrimaryFirst(req, table, time, isPrimary, session, isSpecified, specifiedStatus) ==
    LET st == Locals(table)
    IN  IF ~req.confirmablePost
        THEN [st EXCEPT !.error = "PARSE"]
        ELSE IF ~isPrimary
        THEN [st EXCEPT !.status = "MlrBbrNotPrimary"]
        ELSE IF isSpecified
        THEN [st EXCEPT !.hookConsumed = TRUE, !.status = specifiedStatus]
        ELSE CheckSession(st, req, time, session)

\* the handler up to its exit label: the locals at `exit`
MlrLocalsAtExit(req, table, time, isPrimary, session, isSpecified, specifiedStatus) ==
    LET st == Locals(table)
    IN  IF ~req.confirmablePost
        THEN [st EXCEPT !.error = "PARSE"]
        ELSE IF isSpecified
        THEN [st EXCEPT !.hookConsumed = TRUE, !.status = specifiedStatus]
        ELSE IF ~isPrimary
        THEN [st EXCEPT !.status = "MlrBbrNotPrimary"]
        ELSE CheckSession(st, req, time, session)

\* addresses[first .. first + count - 1]
ArraySlice(addresses, first, count) ==
    [k \in 1..count |->
        IF first + k - 1 \in DOMAIN addresses THEN addresses[first + k - 1] ELSE Unwritten]

\* SendMulticastListenerRegistrationResponse: the message handed to the mesh TMF agent
MlrResponse(aStatus, aFailedAddresses, aFailedAddressNum) ==
    [status |-> aStatus,
     hasAddressesTlv |-> aFailedAddressNum > 0,
     addresses |-> ArraySlice(aFailedAddresses, 0, aFailedAddressNum)]

\* SendBackboneMulticastListenerRegistration: the message handed to the backbone TMF agent
BackboneMlr(aAddresses, aAddressNum, aTimeout) ==
    [uri |-> "b/bmr", confirmable |-> FALSE,
     addresses |-> aAddresses, timeout |-> aTimeout,
     isHostInterface |-> TRUE,
     assertOk |-> aAddressNum >= kIPv6AddressesNumMin /\ aAddressNum <= kIPv6AddressesNumMax]

\* the messages built after the exit label
ResponseAtExit(st) ==
    IF st.error = "NONE"
    THEN <<MlrResponse(st.status, st.addresses, st.failedAddressNum)>>
    ELSE <<>>

\* Fault: the notification is sent only when no address failed.
NotificationAtExit_OnSuccessOnly(st) ==
    IF st.successAddressNum > 0 /\ st.status = "MlrSuccess"
    THEN <<BackboneMlr(ArraySlice(st.addresses,
                                  kIPv6AddressesNumMax - st.successAddressNum,
                                  st.successAddressNum),
                       st.successAddressNum, st.timeout)>>
    ELSE <<>>

\* Fault: one notification for each registered address.
NotificationAtExit_PerAddress(st) ==
    [k \in 1..st.successAddressNum |->
        BackboneMlr(ArraySlice(st.addresses, kIPv6AddressesNumMax - k, 1), 1, st.timeout)]

NotificationAtExit(st) ==
    IF st.successAddressNum > 0
    THEN <<BackboneMlr(ArraySlice(st.addresses,
                                  kIPv6AddressesNumMax - st.successAddressNum,
                                  st.successAddressNum),
                       st.successAddressNum, st.timeout)>>
    ELSE <<>>

\* ------------------------------------------------------------ NdProxyTable
\* Number of entries the ND proxy table has room for.
kNdProxyTableSize == 2

ProxyTargets(table) == {e.targetIid : e \in table}

ProxyEntry(aTargetIid, aMeshLocalIid, aRloc16, aLastTransactionTime) ==
    [targetIid |-> aTargetIid, meshLocalIid |-> aMeshLocalIid, rloc16 |-> aRloc16,
     lastTransactionTime |-> aLastTransactionTime]

\* NdProxyTable::Register: [error, table]. A held target of another mesh-local
\* IID is a duplicate, a held target of the same mesh-local IID is updated, a
\* new target needs room; fault: a registration that is neither a duplicate
\* nor one without room fails for another reason.
NdProxyRegister(table, aTargetIid, aMeshLocalIid, aRloc16, aLastTransactionTime, fault) ==
    IF \E e \in table : e.targetIid = aTargetIid /\ e.meshLocalIid # aMeshLocalIid
    THEN [error |-> "DUPLICATED", table |-> table]
    ELSE IF aTargetIid \notin ProxyTargets(table)
            /\ Cardinality(table) >= kNdProxyTableSize
    THEN [error |-> "NO_BUFS", table |-> table]
    ELSE IF fault
    THEN [error |-> "FAILED", table |-> table]
    ELSE IF aTargetIid \in ProxyTargets(table)
    THEN [error |-> "NONE",
          table |-> {e \in table : e.targetIid # aTargetIid}
                        \cup {ProxyEntry(aTargetIid, aMeshLocalIid, aRloc16,
                                         aLastTransactionTime)}]
    ELSE [error |-> "NONE",
          table |-> table \cup {ProxyEntry(aTargetIid, aMeshLocalIid, aRloc16,
                                           aLastTransactionTime)}]

\* ------------------------------------------------------------------ DUA.req
\* The Domain Prefix of the network data and a prefix that is not it.
DomainPrefix == "fd00:7d03:7d03:7d03::/64"

OtherPrefix == "fd00:abba::/64"

\* Get<BackboneRouter::Leader>().IsDomainUnicast(target)
IsDomainUnicast(target) == target.prefix = DomainPrefix

TargetIids == {21, 22, 23}

MeshLocalIids == {11, 12}

Rloc16s == {1, 2}

\* aMessageInfo.GetPeerAddr().GetIid()
RoutingLocators == [isRoutingLocator : {TRUE}, locator : Rloc16s]

NotRoutingLocator == [isRoutingLocator |-> FALSE, locator |-> 0]

\* The Target TLV: targets of the domain and one target that is not.
TargetTlvs ==
    [present : {TRUE}, prefix : {DomainPrefix}, iid : TargetIids]
        \cup {[present |-> TRUE, prefix |-> OtherPrefix, iid |-> 21]}

\* Requests that pass the checks of the source, the method and the TLVs.
CompleteDuaRequests ==
    [peer : RoutingLocators, confirmablePost : {TRUE}, target : TargetTlvs,
     meshLocalIid : MeshLocalIids, lastTransactionTime : {NoTlv, 5}]

\* Requests that fail one of these checks.
IncompleteDuaRequests ==
    LET base == {r \in CompleteDuaRequests :
                    r.peer.locator = 1 /\ r.lastTransactionTime = NoTlv}
    IN  {[r EXCEPT !.peer = NotRoutingLocator] : r \in base}
            \cup {[r EXCEPT !.confirmablePost = FALSE] : r \in base}
            \cup {[r EXCEPT !.target.present = FALSE] : r \in base}
            \cup {[r EXCEPT !.meshLocalIid = NoTlv] : r \in base}

DuaRequests == CompleteDuaRequests \cup IncompleteDuaRequests

\* ------------------------------------------- Manager::HandleDuaRegistration
\* The locals at entry; registerCalls and registerError: the calls of
\* mNdProxyTable.Register and what the last one returned.
DuaLocals(table) ==
    [error |-> "NONE", status |-> kDuaSuccess, duaRespCoapCode |-> kCodeEmpty,
     table |-> table, hookConsumed |-> FALSE,
     registerCalls |-> <<>>, registerError |-> "NONE"]

\* Fault: the switch has no default case.
RegisterStatus_NoDefault(status, error) ==
    CASE error = "DUPLICATED" -> kDuaDuplicate
      [] error = "NO_BUFS" -> kDuaNoResources
      [] OTHER -> status

\* Fault: the switch has no case for OT_ERROR_DUPLICATED.
RegisterStatus_NoDuplicateCase(status, error) ==
    CASE error = "NONE" -> status
      [] error = "NO_BUFS" -> kDuaNoResources
      [] OTHER -> kDuaGeneralFailure

\* The switch on the error of mNdProxyTable.Register.
RegisterStatus(status, error) ==
    CASE error = "NONE" -> status
      [] error = "DUPLICATED" -> kDuaDuplicate
      [] error = "NO_BUFS" -> kDuaNoResources
      [] OTHER -> kDuaGeneralFailure

\* Fault: a registration drops the entries of the other targets.
DuaRegister_Evicts(st, req, fault) ==
    LET hasLastTransactionTime == req.lastTransactionTime # NoTlv
        call == ProxyEntry(req.target.iid, req.meshLocalIid, req.peer.locator,
                           IF hasLastTransactionTime
                           THEN req.lastTransactionTime ELSE NoTlv)
        registered == NdProxyRegister(st.table, call.targetIid, call.meshLocalIid,
                                      call.rloc16, call.lastTransactionTime, fault)
    IN  [st EXCEPT !.table = {e \in registered.table : e.targetIid = call.targetIid},
                   !.registerCalls = Append(@, call),
                   !.registerError = registered.error,
                   !.status = RegisterStatus(@, registered.error)]

\* The Last Transaction Time TLV is looked up and the target is registered.
DuaRegister(st, req, fault) ==
    LET hasLastTransactionTime == req.lastTransactionTime # NoTlv
        call == ProxyEntry(req.target.iid, req.meshLocalIid, req.peer.locator,
                           IF hasLastTransactionTime
                           THEN req.lastTransactionTime ELSE NoTlv)
        registered == NdProxyRegister(st.table, call.targetIid, call.meshLocalIid,
                                      call.rloc16, call.lastTransactionTime, fault)
    IN  [st EXCEPT !.table = registered.table,
                   !.registerCalls = Append(@, call),
                   !.registerError = registered.error,
                   !.status = RegisterStatus(@, registered.error)]

\* The condition under which the reference-device hook answers the request.
DuaHookMatches(isSpecified, targetMlIid, meshLocalIid) ==
    isSpecified /\ (targetMlIid = 0 \/ targetMlIid = meshLocalIid)

\* Fault: the configured value is always sent as a status.
DuaHook_NoCoapCode(st, specifiedStatus) ==
    [st EXCEPT !.hookConsumed = TRUE, !.status = specifiedStatus]

\* The hook answers; it is armed for one request.
DuaHook(st, specifiedStatus) ==
    IF specifiedStatus >= kCodeResponseMin
    THEN [st EXCEPT !.hookConsumed = TRUE, !.duaRespCoapCode = specifiedStatus]
    ELSE [st EXCEPT !.hookConsumed = TRUE, !.status = specifiedStatus]

\* Fault: the target is checked before the role.
CheckTarget_DomainFirst(st, req, isPrimary, fault) ==
    IF ~IsDomainUnicast(req.target)
    THEN [st EXCEPT !.status = kDuaInvalid]
    ELSE IF ~isPrimary
    THEN [st EXCEPT !.status = kDuaNotPrimary]
    ELSE DuaRegister(st, req, fault)

\* The checks of the target, once the hook has not answered.
CheckTarget(st, req, isPrimary, fault) ==
    IF ~isPrimary
    THEN [st EXCEPT !.status = kDuaNotPrimary]
    ELSE IF ~IsDomainUnicast(req.target)
    THEN [st EXCEPT !.status = kDuaInvalid]
    ELSE DuaRegister(st, req, fault)

\* Fault: the hook is looked at before the source of the request is checked.
DuaLocalsAtExit_HookFirst(req, table, isPrimary, isSpecified, targetMlIid, specifiedStatus, fault) ==
    LET st == DuaLocals(table)
    IN  IF DuaHookMatches(isSpecified, targetMlIid, req.meshLocalIid)
        THEN IF req.peer.isRoutingLocator /\ req.confirmablePost /\ req.target.present
             THEN DuaHook(st, specifiedStatus)
             ELSE [DuaHook(st, specifiedStatus) EXCEPT !.error = "DROP"]
        ELSE IF ~req.peer.isRoutingLocator
        THEN [st EXCEPT !.error = "DROP"]
        ELSE IF ~req.confirmablePost
        THEN [st EXCEPT !.error = "PARSE"]
        ELSE IF ~req.target.present
        THEN [st EXCEPT !.error = "NOT_FOUND"]
        ELSE IF req.meshLocalIid = NoTlv
        THEN [st EXCEPT !.error = "NOT_FOUND"]
        ELSE CheckTarget(st, req, isPrimary, fault)

\* The locals of HandleDuaRegistration at the label exit.
DuaLocalsAtExit(req, table, isPrimary, isSpecified, targetMlIid, specifiedStatus, fault) ==
    LET st == DuaLocals(table)
    IN  IF ~req.peer.isRoutingLocator
        THEN [st EXCEPT !.error = "DROP"]
        ELSE IF ~req.confirmablePost
        THEN [st EXCEPT !.error = "PARSE"]
        ELSE IF ~req.target.present
        THEN [st EXCEPT !.error = "NOT_FOUND"]
        ELSE IF req.meshLocalIid = NoTlv
        THEN [st EXCEPT !.error = "NOT_FOUND"]
        ELSE IF DuaHookMatches(isSpecified, targetMlIid, req.meshLocalIid)
        THEN DuaHook(st, specifiedStatus)
        ELSE CheckTarget(st, req, isPrimary, fault)

\* Manager::SendDuaRegistrationResponse: the message that is sent.
DuaResponse(aTarget, aStatus) ==
    [kind |-> "DUA.rsp", status |-> aStatus,
     target |-> [prefix |-> aTarget.prefix, iid |-> aTarget.iid]]

\* TmfAgent::SendEmptyAck: the message that is sent.
EmptyAck(aCode) == [kind |-> "ACK", code |-> aCode]

\* What HandleDuaRegistration sends after the label exit.
DuaResponseAtExit(st, req) ==
    IF st.error = "NONE"
    THEN IF st.duaRespCoapCode # kCodeEmpty
         THEN <<EmptyAck(st.duaRespCoapCode)>>
         ELSE <<DuaResponse(req.target, st.status)>>
    ELSE <<>>

\* ------------------------------------ Manager::ShouldForwardDuaToBackbone
\* NdProxyTable::IsRegistered
NdProxyIsRegistered(table, aIid) == aIid \in ProxyTargets(table)

\* The addresses that are asked about.
QueryAddresses == [prefix : {DomainPrefix, OtherPrefix}, iid : {21, 22}]

\* What AddressResolver::Resolve gives for aAllowAddressQuery = false: the
\* error and rloc16, which holds any value when the error is not NONE.
Resolutions == [error : {"NONE", "NOT_FOUND"}, rloc16 : Rloc16s]

\* Fault: a failed resolution does not let the packet go to the backbone.
ForwardToBackbone_ResolvedOnly(aAddress, isPrimary, proxy, resolved, ownRloc16) ==
    IF ~isPrimary THEN FALSE
    ELSE IF ~IsDomainUnicast(aAddress) THEN FALSE
    ELSE IF ~(~NdProxyIsRegistered(proxy, aAddress.iid)) THEN FALSE
    ELSE IF ~(resolved.error = "NONE" /\ resolved.rloc16 = ownRloc16) THEN FALSE
    ELSE TRUE

\* forwardToBackbone at the label exit; ownRloc16: Get<Mle::MleRouter>().GetRloc16().
ForwardToBackbone(aAddress, isPrimary, proxy, resolved, ownRloc16) ==
    IF ~isPrimary THEN FALSE
    ELSE IF ~IsDomainUnicast(aAddress) THEN FALSE
    ELSE IF ~(~NdProxyIsRegistered(proxy, aAddress.iid)) THEN FALSE
    ELSE IF ~(resolved.error # "NONE" \/ resolved.rloc16 = ownRloc16) THEN FALSE
    ELSE TRUE

\* ------------------------------------------------------------------ actions
Init ==
    /\ bbrState = "DISABLED"
    /\ stateChangedPending = FALSE
    /\ commissionerSessionId = NoTlv
    /\ now = 0
    /\ mMulticastListenersTable = {}
    /\ mlrResourceAdded = FALSE
    /\ duaResourceAdded = FALSE
    /\ mTimerRunning = FALSE
    /\ mTimerFireTime = 0
    /\ backboneTmfRunning = FALSE
    /\ mMlrResponseIsSpecified = FALSE
    /\ mMlrResponseStatus = "MlrSuccess"
    /\ mNdProxyTable = {}
    /\ mDuaResponseIsSpecified = FALSE
    /\ mDuaResponseTargetMlIid = 0
    /\ mDuaResponseStatus = kDuaSuccess
    /\ handled = <<>>
    /\ meshOut = <<>>
    /\ backboneOut = <<>>

\* Nothing that a handler sent is still waiting in a transport.
Idle == handled = <<>>

\* BackboneRouter::Local changes its state and signals the event.
SetState(state) ==
    /\ Idle
    /\ state # bbrState
    /\ bbrState' = state
    /\ stateChangedPending' = TRUE
    /\ UNCHANGED <<commissionerSessionId, now, lifeVars, hookVars, duaVars, outVars,
                   mMulticastListenersTable>>

\* Fault: the listeners are cleared whenever the state is not Primary.
ListenersOnStateChanged_NotPrimary(state, table) ==
    IF state # "PRIMARY" THEN TableClear(table) ELSE table

\* Fault: the listeners are not cleared.
ListenersOnStateChanged_Kept(state, table) == table

\* What the handling of the event does to the multicast listeners table:
\* mMulticastListenersTable.Clear() is in the branch of the Disabled state.
ListenersOnStateChanged(state, table) ==
    IF state = "DISABLED" THEN TableClear(table) ELSE table

\* Fault: the resources are removed again when the backbone TMF agent fails.
ResourcesOnStateChanged_RolledBack(state, agentOk) == state # "DISABLED" /\ agentOk

\* What the handling of the event does to the two TMF resources: they are
\* removed in the Disabled state and added in the other states; the error of
\* the backbone TMF agent comes later and is logged.
ResourcesOnStateChanged(state, agentOk) == state # "DISABLED"

\* Fault: the timer is started whether or not it is running.
TimerOnStateChanged_Restarted(state, running, fireTime, time) ==
    IF state = "DISABLED"
    THEN [running |-> FALSE, fireTime |-> fireTime]
    ELSE [running |-> TRUE, fireTime |-> TimeAdd(time, kTimerInterval)]

\* Fault: the timer is not stopped in the Disabled state.
TimerOnStateChanged_NotStopped(state, running, fireTime, time) ==
    IF state = "DISABLED"
    THEN [running |-> running, fireTime |-> fireTime]
    ELSE [running |-> TRUE,
          fireTime |-> IF ~running THEN TimeAdd(time, kTimerInterval) ELSE fireTime]

\* What the handling of the event does to mTimer: Stop() in the Disabled
\* state, Start(kTimerInterval) in the other states if it is not running.
TimerOnStateChanged(state, running, fireTime, time) ==
    IF state = "DISABLED"
    THEN [running |-> FALSE, fireTime |-> fireTime]
    ELSE [running |-> TRUE,
          fireTime |-> IF ~running THEN TimeAdd(time, kTimerInterval) ELSE fireTime]

\* The body of Manager::HandleNotifierEvents for an event set that contains
\* kEventThreadBackboneRouterStateChanged, with GetState() returning `state`;
\* agentOk: mBackboneTmfAgent.Start()/Stop() returns OT_ERROR_NONE.
StateChanged(state, agentOk) ==
    /\ mlrResourceAdded' = ResourcesOnStateChanged(state, agentOk)
    /\ duaResourceAdded' = ResourcesOnStateChanged(state, agentOk)
    /\ LET timer == TimerOnStateChanged(state, mTimerRunning, mTimerFireTime, now)
       IN  /\ mTimerRunning' = timer.running
           /\ mTimerFireTime' = timer.fireTime
    /\ backboneTmfRunning' = IF agentOk THEN state # "DISABLED" ELSE backboneTmfRunning
    /\ mMulticastListenersTable' =
          ListenersOnStateChanged(state, mMulticastListenersTable)
    /\ handled' = <<[op |-> "EVENT", state |-> state,
                     agentCall |-> IF state = "DISABLED" THEN "Stop" ELSE "Start",
                     agentOk |-> agentOk,
                     stateBefore |-> bbrState,
                     tableBefore |-> mMulticastListenersTable,
                     proxyBefore |-> mNdProxyTable,
                     lifeBefore |-> [mlrResourceAdded |-> mlrResourceAdded,
                                     duaResourceAdded |-> duaResourceAdded,
                                     mTimerRunning |-> mTimerRunning,
                                     mTimerFireTime |-> mTimerFireTime,
                                     backboneTmfRunning |-> backboneTmfRunning]]>>
    /\ UNCHANGED <<commissionerSessionId, now, hookVars, duaVars, meshOut, backboneOut>>

\* Manager::HandleNotifierEvents, run by the notifier for a signalled event.
HandleNotifierEvents(agentOk) ==
    /\ Idle
    /\ stateChangedPending
    /\ stateChangedPending' = FALSE
    /\ bbrState' = bbrState
    /\ StateChanged(bbrState, agentOk)

\* The state changes and the notifier runs Manager::HandleNotifierEvents before
\* anything else is dispatched.
RoleChange(state, agentOk) ==
    /\ Idle
    /\ ~stateChangedPending
    /\ state # bbrState
    /\ bbrState' = state
    /\ stateChangedPending' = FALSE
    /\ StateChanged(state, agentOk)

\* Fault: the timer is started again for twice the interval.
TimerOnFire_TwoIntervals(time) == TimeAdd(time, 2 * kTimerInterval)

\* mTimer.Start(kTimerInterval) in HandleTimer: the next fire time.
TimerOnFire(time) == TimeAdd(time, kTimerInterval)

\* Manager::HandleTimer
HandleTimer ==
    /\ Idle
    /\ mTimerRunning
    /\ now >= mTimerFireTime
    /\ mMulticastListenersTable' = TableExpire(mMulticastListenersTable, now)
    /\ mTimerFireTime' = TimerOnFire(now)
    /\ handled' = <<[op |-> "TIMER", tableBefore |-> mMulticastListenersTable,
                     fireTimeBefore |-> mTimerFireTime]>>
    /\ UNCHANGED <<envVars, mlrResourceAdded, duaResourceAdded, mTimerRunning,
                   backboneTmfRunning, hookVars, duaVars, meshOut, backboneOut>>

\* Manager::ConfigNextMulticastListenerRegistrationResponse
ConfigNextMulticastListenerRegistrationResponse(aStatus) ==
    /\ Idle
    /\ mMlrResponseIsSpecified' = TRUE
    /\ mMlrResponseStatus' = aStatus
    /\ handled' = <<[op |-> "CONFIG_MLR", aStatus |-> aStatus,
                     isSpecifiedBefore |-> mMlrResponseIsSpecified,
                     statusBefore |-> mMlrResponseStatus]>>
    /\ UNCHANGED <<envVars, lifeVars, duaVars, meshOut, backboneOut,
                   mMulticastListenersTable>>

\* Fault: the table is put back when the response is not sent.
HandleMulticastListenerRegistration_RolledBack(req, meshSendOk, backboneSendOk) ==
    /\ Idle
    /\ mlrResourceAdded
    /\ LET st == MlrLocalsAtExit(req, mMulticastListenersTable, now, IsPrimary,
                                 commissionerSessionId, mMlrResponseIsSpecified,
                                 mMlrResponseStatus)
           response == ResponseAtExit(st)
           notification == NotificationAtExit(st)
       IN  /\ mMulticastListenersTable' =
                 IF meshSendOk THEN st.table ELSE mMulticastListenersTable
           /\ mMlrResponseIsSpecified' =
                 IF st.hookConsumed THEN FALSE ELSE mMlrResponseIsSpecified
           /\ meshOut' = IF meshSendOk THEN response ELSE <<>>
           /\ backboneOut' = IF backboneSendOk THEN notification ELSE <<>>
           /\ handled' = <<[op |-> "MLR", req |-> req,
                            meshSendOk |-> meshSendOk,
                            backboneSendOk |-> backboneSendOk,
                            tableBefore |-> mMulticastListenersTable,
                            isSpecifiedBefore |-> mMlrResponseIsSpecified,
                            locals |-> st,
                            response |-> response,
                            notification |-> notification]>>
    /\ UNCHANGED <<envVars, lifeVars, mMlrResponseStatus, duaVars>>

\* Manager::HandleMulticastListenerRegistration, called by the mesh TMF agent
\* for a request to the registered resource; meshSendOk and backboneSendOk:
\* the message is allocated and sent without error.
HandleMulticastListenerRegistration(req, meshSendOk, backboneSendOk) ==
    /\ Idle
    /\ mlrResourceAdded
    /\ LET st == MlrLocalsAtExit(req, mMulticastListenersTable, now, IsPrimary,
                                 commissionerSessionId, mMlrResponseIsSpecified,
                                 mMlrResponseStatus)
           response == ResponseAtExit(st)
           notification == NotificationAtExit(st)
       IN  /\ mMulticastListenersTable' = st.table
           /\ mMlrResponseIsSpecified' =
                 IF st.hookConsumed THEN FALSE ELSE mMlrResponseIsSpecified
           /\ meshOut' = IF meshSendOk THEN response ELSE <<>>
           /\ backboneOut' = IF backboneSendOk THEN notification ELSE <<>>
           /\ handled' = <<[op |-> "MLR", req |-> req,
                            meshSendOk |-> meshSendOk,
                            backboneSendOk |-> backboneSendOk,
                            tableBefore |-> mMulticastListenersTable,
                            isSpecifiedBefore |-> mMlrResponseIsSpecified,
                            locals |-> st,
                            response |-> response,
                            notification |-> notification]>>
    /\ UNCHANGED <<envVars, lifeVars, mMlrResponseStatus, duaVars>>

\* Manager::ConfigNextDuaRegistrationResponse; aMlIid = NoTlv: a null pointer.
ConfigNextDuaRegistrationResponse(aMlIid, aStatus) ==
    /\ Idle
    /\ mDuaResponseIsSpecified' = TRUE
    /\ mDuaResponseTargetMlIid' = IF aMlIid # NoTlv THEN aMlIid ELSE 0
    /\ mDuaResponseStatus' = aStatus
    /\ handled' = <<[op |-> "CONFIG_DUA", aMlIid |-> aMlIid, aStatus |-> aStatus,
                     isSpecifiedBefore |-> mDuaResponseIsSpecified]>>
    /\ UNCHANGED <<envVars, lifeVars, hookVars, mNdProxyTable, meshOut, backboneOut,
                   mMulticastListenersTable>>

\* Manager::HandleDuaRegistration, called by the mesh TMF agent for a request
\* to the registered resource; fault: mNdProxyTable.Register fails for a
\* reason other than a duplicate or the lack of room; sendOk: the response is
\* allocated and sent without error.
HandleDuaRegistration(req, fault, sendOk) ==
    /\ Idle
    /\ duaResourceAdded
    /\ LET st == DuaLocalsAtExit(req, mNdProxyTable, IsPrimary,
                                 mDuaResponseIsSpecified, mDuaResponseTargetMlIid,
                                 mDuaResponseStatus, fault)
           response == DuaResponseAtExit(st, req)
       IN  /\ mNdProxyTable' = st.table
           /\ mDuaResponseIsSpecified' =
                 IF st.hookConsumed THEN FALSE ELSE mDuaResponseIsSpecified
           /\ meshOut' = IF sendOk THEN response ELSE <<>>
           /\ backboneOut' = <<>>
           /\ handled' = <<[op |-> "DUA", req |-> req, sendOk |-> sendOk,
                            proxyBefore |-> mNdProxyTable,
                            isSpecifiedBefore |-> mDuaResponseIsSpecified,
                            locals |-> st,
                            response |-> response]>>
    /\ UNCHANGED <<envVars, lifeVars, hookVars, mDuaResponseTargetMlIid,
                   mDuaResponseStatus, mMulticastListenersTable>>

\* Manager::ShouldForwardDuaToBackbone, called by the IPv6 layer.
ShouldForwardDuaToBackbone(aAddress, resolved, ownRloc16) ==
    /\ Idle
    /\ handled' = <<[op |-> "QUERY", address |-> aAddress, resolved |-> resolved,
                     ownRloc16 |-> ownRloc16,
                     result |-> ForwardToBackbone(aAddress, IsPrimary, mNdProxyTable,
                                                  resolved, ownRloc16),
                     tableBefore |-> mMulticastListenersTable,
                     proxyBefore |-> mNdProxyTable,
                     lifeBefore |-> [mlrResourceAdded |-> mlrResourceAdded,
                                     duaResourceAdded |-> duaResourceAdded,
                                     mTimerRunning |-> mTimerRunning,
                                     mTimerFireTime |-> mTimerFireTime,
                                     backboneTmfRunning |-> backboneTmfRunning]]>>
    /\ UNCHANGED <<envVars, lifeVars, hookVars, duaVars, meshOut, backboneOut,
                   mMulticastListenersTable>>

\* The transports have taken the messages of the last handler.
Drain ==
    /\ ~Idle
    /\ handled' = <<>>
    /\ meshOut' = <<>>
    /\ backboneOut' = <<>>
    /\ UNCHANGED <<envVars, lifeVars, hookVars, duaVars, mMulticastListenersTable>>

\* The commissioner session of the network data changes.
SetCommissionerSession(session) ==
    /\ Idle
    /\ session # commissionerSessionId
    /\ commissionerSessionId' = session
    /\ UNCHANGED <<bbrState, stateChangedPending, now, lifeVars, hookVars, duaVars,
                   outVars, mMulticastListenersTable>>

\* Time passes.
Tick ==
    /\ Idle
    /\ now < MaxTicks * kTimerInterval
    /\ now' = now + kTimerInterval
    /\ UNCHANGED <<bbrState, stateChangedPending, commissionerSessionId, lifeVars,
                   hookVars, duaVars, outVars, mMulticastListenersTable>>

\* Time passes, as far as the sweeps of the timer are followed.
TickSweep ==
    /\ Idle
    /\ now < MaxSweepTicks * kTimerInterval
    /\ now' = now + kTimerInterval
    /\ UNCHANGED <<bbrState, stateChangedPending, commissionerSessionId, lifeVars,
                   hookVars, duaVars, outVars, mMulticastListenersTable>>

\* ----------------------------------------------------------- specifications
\* The manager under MLR requests, role changes that the notifier delivers at
\* once, commissioner changes and the passing of time.
NextMlr ==
    \/ \E state \in BbrStates : RoleChange(state, TRUE)
    \/ \E session \in {NoTlv, 1} : SetCommissionerSession(session)
    \/ Tick
    \/ \E req \in MlrRequests : HandleMulticastListenerRegistration(req, TRUE, TRUE)
    \/ Drain

SpecMlr == Init /\ [][NextMlr]_vars

\* The manager under DUA requests, role changes that the notifier delivers at
\* once and the reference-device hook armed with a DUA status.
NextDua ==
    \/ \E state \in BbrStates : RoleChange(state, TRUE)
    \/ \E aMlIid \in {NoTlv, 11} :
          ConfigNextDuaRegistrationResponse(aMlIid, kDuaDuplicate)
    \/ \E req \in DuaRequests, fault \in BOOLEAN :
          HandleDuaRegistration(req, fault, TRUE)
    \/ Drain

SpecDua == Init /\ [][NextDua]_vars

\* Requests that register one multicast address with the default timeout.
LifeMlrRequests ==
    {r \in MlrRequests :
        /\ r.confirmablePost
        /\ r.sessionId = NoTlv
        /\ r.timeout = NoTlv
        /\ r.addresses.present
        /\ r.addresses.trailing = 0
        /\ Len(r.addresses.list) = 1
        /\ r.addresses.list[1] \in {"ff04::a", "ff05::b"}}

\* Requests of one child that register a target of the domain.
LifeDuaRequests ==
    {r \in CompleteDuaRequests :
        /\ r.peer.locator = 1
        /\ r.lastTransactionTime = NoTlv
        /\ r.meshLocalIid = 11
        /\ r.target.prefix = DomainPrefix
        /\ r.target.iid \in {21, 22}}

\* The manager under state changes that the notifier delivers later, with a
\* backbone TMF agent that can fail to start and to stop, the timer, and
\* requests that fill both tables.
NextLife ==
    \/ \E state \in BbrStates : SetState(state)
    \/ \E agentOk \in BOOLEAN : HandleNotifierEvents(agentOk)
    \/ HandleTimer
    \/ Tick
    \/ \E req \in LifeMlrRequests : HandleMulticastListenerRegistration(req, TRUE, TRUE)
    \/ \E req \in LifeDuaRequests : HandleDuaRegistration(req, FALSE, TRUE)
    \/ Drain

SpecLife == Init /\ [][NextLife]_vars

\* The manager under the timer, over a time in which listeners expire, with
\* requests that register and refresh listeners with the default timeout.
NextSweep ==
    \/ \E state \in BbrStates : RoleChange(state, TRUE)
    \/ TickSweep
    \/ HandleTimer
    \/ \E req \in LifeMlrRequests : HandleMulticastListenerRegistration(req, TRUE, TRUE)
    \/ Drain

SpecSweep == Init /\ [][NextSweep]_vars

\* The same, with the scheduling of the main loop: time advances, a timer
\* that is due is run by the timer scheduler however many requests arrive,
\* and the transports take what a handler has sent.
SpecSweepFair ==
    SpecSweep /\ SF_vars(TickSweep) /\ SF_vars(HandleTimer) /\ WF_vars(Drain)

\* The manager under the query of the IPv6 layer, with role changes and
\* requests that fill both tables.
NextQuery ==
    \/ \E state \in BbrStates : RoleChange(state, TRUE)
    \/ \E req \in LifeMlrRequests : HandleMulticastListenerRegistration(req, TRUE, TRUE)
    \/ \E req \in LifeDuaRequests : HandleDuaRegistration(req, FALSE, TRUE)
    \/ \E aAddress \in QueryAddresses, resolved \in Resolutions, ownRloc16 \in Rloc16s :
          ShouldForwardDuaToBackbone(aAddress, resolved, ownRloc16)
    \/ Drain

SpecQuery == Init /\ [][NextQuery]_vars

\* Requests with and without the IPv6 Addresses TLV, whole or not, that are
\* a confirmable POST or not.
HookMlrRequests ==
    {r \in MlrRequests :
        /\ r.sessionId = NoTlv
        /\ r.timeout \in {NoTlv, 0}
        /\ Len(r.addresses.list) <= 1}

\* The manager of a reference device: the response to the next MLR request is
\* configured, under role changes and requests.
NextMlrHook ==
    \/ \E state \in BbrStates : RoleChange(state, TRUE)
    \/ \E aStatus \in {"MlrSuccess", "MlrNoResources"} :
          ConfigNextMulticastListenerRegistrationResponse(aStatus)
    \/ \E req \in HookMlrRequests : HandleMulticastListenerRegistration(req, TRUE, TRUE)
    \/ Drain

SpecMlrHook == Init /\ [][NextMlrHook]_vars

\* Requests of one child for one target, with either mesh-local IID, and the
\* requests that fail a check of the source, the method or the TLVs.
HookDuaRequests ==
    {r \in DuaRequests :
        /\ r.peer.locator \in {0, 1}
        /\ r.lastTransactionTime = NoTlv
        /\ r.target.iid = 21}

\* The values the response to the next DUA request is configured with: a DUA
\* status, the least CoAP response code and the value below it.
HookDuaStatuses == {kDuaDuplicate, kCodeResponseMin - 1, kCodeResponseMin}

\* The manager of a reference device: the response to the next DUA request is
\* configured, for any mesh-local IID (a null pointer), for the unspecified
\* IID and for a mesh-local IID of a child, under role changes and requests.
NextDuaHook ==
    \/ \E state \in BbrStates : RoleChange(state, TRUE)
    \/ \E aMlIid \in {NoTlv, 0, 11}, aStatus \in HookDuaStatuses :
          ConfigNextDuaRegistrationResponse(aMlIid, aStatus)
    \/ \E req \in HookDuaRequests : HandleDuaRegistration(req, FALSE, TRUE)
    \/ Drain

SpecDuaHook == Init /\ [][NextDuaHook]_vars

\* Requests for one listener, and for a listener after an address that the
\* table refuses.
SendMlrRequests ==
    {r \in MlrRequests :
        /\ r.confirmablePost
        /\ r.sessionId = NoTlv
        /\ r.timeout = NoTlv
        /\ r.addresses.present
        /\ r.addresses.trailing = 0
        /\ r.addresses.list \in {<<"ff04::a">>, <<"ff02::1", "ff05::b">>}}

\* The manager with transports that can fail to allocate or to send a
\* message, under role changes, the passing of time and requests.
NextSend ==
    \/ \E state \in BbrStates : RoleChange(state, TRUE)
    \/ Tick
    \/ \E req \in SendMlrRequests, meshSendOk \in BOOLEAN, backboneSendOk \in BOOLEAN :
          HandleMulticastListenerRegistration(req, meshSendOk, backboneSendOk)
    \/ \E req \in LifeDuaRequests, sendOk \in BOOLEAN :
          HandleDuaRegistration(req, FALSE, sendOk)
    \/ Drain

SpecSend == Init /\ [][NextSend]_vars

\* Requests without session id and timeout, over two acceptable addresses and
\* one that the table refuses: every length of the list, a list that repeats
\* an address, a TLV that is absent or ends in a part of an address, and
\* requests that are not a confirmable POST.
AllMlrRequests ==
    {r \in MlrRequests :
        /\ r.sessionId = NoTlv
        /\ r.timeout = NoTlv
        /\ \A i \in DOMAIN r.addresses.list :
              r.addresses.list[i] \in {"ff04::a", "ff05::b", "ff02::1"}}

\* Requests of two children for two targets of the domain and one that is
\* not, and the requests that fail a check.
AllDuaRequests ==
    {r \in DuaRequests :
        /\ r.peer.isRoutingLocator => r.peer.locator = 1
        /\ r.lastTransactionTime = NoTlv
        /\ r.target.iid \in {21, 22}}

\* The manager under every operation: role changes, the timer, MLR and DUA
\* requests of every outcome, with sends that can fail, and the query of the
\* IPv6 layer.
NextAll ==
    \/ \E state \in BbrStates : RoleChange(state, TRUE)
    \/ HandleTimer
    \/ Tick
    \/ \E req \in AllMlrRequests, meshSendOk \in BOOLEAN, backboneSendOk \in BOOLEAN :
          HandleMulticastListenerRegistration(req, meshSendOk, backboneSendOk)
    \/ \E req \in AllDuaRequests, fault \in BOOLEAN, sendOk \in BOOLEAN :
          HandleDuaRegistration(req, fault, sendOk)
    \/ \E aAddress \in QueryAddresses, resolved \in Resolutions, ownRloc16 \in Rloc16s :
          ShouldForwardDuaToBackbone(aAddress, resolved, ownRloc16)
    \/ Drain

SpecAll == Init /\ [][NextAll]_vars


\* ------------------------------------------------- vocabulary of the claims
\* A request handler has run and its messages are not drained yet.
MlrHandled == handled # <<>> /\ handled[1].op = "MLR"

H == handled[1]

Range(seq) == {seq[i] : i \in DOMAIN seq}

Reverse(seq) == [i \in 1..Len(seq) |-> seq[Len(seq) + 1 - i]]

\* The address list is present, a whole number of addresses, and not too long.
WellFormed(tlv) ==
    tlv.present /\ tlv.trailing = 0 /\ Len(tlv.list) <= kIPv6AddressesNumMax

\* The request carries a Commissioner Session ID TLV equal to the registered one.
SessionMatches(req) == req.sessionId # NoTlv /\ req.sessionId = commissionerSessionId

\* The request carries no Commissioner Session ID TLV, or a matching one.
SessionPasses(req) == req.sessionId = NoTlv \/ SessionMatches(req)

\* The Timeout TLV of the request is taken into account.
TimeoutConsidered(req) == SessionMatches(req) /\ req.timeout # NoTlv

\* The request passes the POST, hook, primary and session checks.
ReachesAddressList(h) ==
    h.req.confirmablePost /\ ~h.isSpecifiedBefore /\ IsPrimary /\ SessionPasses(h.req)

\* The request passes every check before the choice of the timeout.
ReachesTimeout(h) == ReachesAddressList(h) /\ WellFormed(h.req.addresses)

\* min(max(t, MinTimeout), MaxTimeout)
Clamp(t) ==
    IF t < kMlrTimeoutMin THEN kMlrTimeoutMin
    ELSE IF t > kMlrTimeoutMax THEN kMlrTimeoutMax ELSE t

\* The timeout, in seconds, that the handler is to use for a request that
\* reaches the choice of the timeout (UINT32_MAX: none, the request is refused).
EffectiveTimeout(req) ==
    IF ~TimeoutConsidered(req) THEN kMlrTimeoutDefault
    ELSE IF req.timeout = 0 \/ req.timeout = UINT32_MAX THEN req.timeout
    ELSE Clamp(req.timeout)

\* The request reaches the address loop.
ReachesLoop(h) ==
    ReachesTimeout(h) /\ EffectiveTimeout(h.req) # UINT32_MAX

\* The table entry that a registration at the current time with this timeout makes.
Entry(address, timeoutSec) ==
    [address |-> address, expireTime |-> (now + timeoutSec * 1000) % Uint32Modulus]

\* The status of the one mesh response, the addresses of its list.
ResponseStatus == meshOut[1].status

ResponseAddresses == meshOut[1].addresses

\* The addresses of the backbone notification, none when there is no notification.
Forwarded == IF backboneOut = <<>> THEN <<>> ELSE backboneOut[1].addresses

\* The table has a free entry for every address of the list that it does not hold.
HasRoomFor(table, list) ==
    Cardinality(TableAddresses(table) \cup Range(list)) <= kMulticastListenersTableSize

AllAcceptable(list) == \A a \in Range(list) : IsMulticastLargerThanRealmLocal(a)

\* --------------------------------------------------------------------- C1
C1_Post(h, t) ==
    /\ \A a \in Range(h.req.addresses.list) :
          Entry(a, Clamp(t)) \in mMulticastListenersTable
    /\ Len(meshOut) = 1
    /\ ResponseStatus = "MlrSuccess"
    /\ Range(h.req.addresses.list) \subseteq Range(Forwarded)

\* C1 as stated: every valid MLR request handled by the Primary that carries
\* a Timeout TLV t, 0 < t < UINT32_MAX, and whose addresses the table has room
\* for, leaves every listed address in the table with expiry
\* now + clamp(t, MinTimeout, MaxTimeout), is answered Success, and has every
\* listed address in the backbone notification.  (Read in its favour: the
\* addresses are acceptable multicast addresses and a Commissioner Session ID
\* TLV, if there is one, matches.)
C1_AsStated ==
    (/\ MlrHandled
     /\ ReachesTimeout(H)
     /\ AllAcceptable(H.req.addresses.list)
     /\ H.req.timeout \notin {NoTlv, 0, UINT32_MAX}
     /\ HasRoomFor(H.tableBefore, H.req.addresses.list))
        => C1_Post(H, H.req.timeout)

\* C1, amended: the same, for the requests whose Timeout TLV is considered,
\* that is, which also carry a Commissioner Session ID TLV equal to the
\* registered commissioner session id.
C1_RegistrationApplied ==
    (/\ MlrHandled
     /\ ReachesTimeout(H)
     /\ SessionMatches(H.req)
     /\ AllAcceptable(H.req.addresses.list)
     /\ H.req.timeout \notin {NoTlv, 0, UINT32_MAX}
     /\ HasRoomFor(H.tableBefore, H.req.addresses.list))
        => C1_Post(H, H.req.timeout)

\* Two different addresses registered at a time after 0 with a timeout that is
\* raised to MinTimeout, one of them new to the table.
C1_Witness ==
    /\ MlrHandled
    /\ ReachesTimeout(H)
    /\ SessionMatches(H.req)
    /\ H.req.timeout = 1
    /\ now > 0
    /\ Len(H.req.addresses.list) = 2
    /\ Cardinality(Range(H.req.addresses.list)) = 2
    /\ Cardinality(H.tableBefore) = 1
    /\ HasRoomFor(H.tableBefore, H.req.addresses.list)
    /\ C1_Post(H, 1)
    /\ Len(backboneOut) = 1

\* --------------------------------------------------------------------- C2
\* C2: when the router is not Primary and no test hook is armed, every
\* confirmable POST MLR request, whatever its TLVs, is answered BbrNotPrimary,
\* the table is unchanged and no backbone notification is sent.
C2_NotPrimary ==
    (MlrHandled /\ H.req.confirmablePost /\ ~H.isSpecifiedBefore /\ ~IsPrimary)
        => /\ Len(meshOut) = 1
           /\ ResponseStatus = "MlrBbrNotPrimary"
           /\ ResponseAddresses = <<>>
           /\ mMulticastListenersTable = H.tableBefore
           /\ backboneOut = <<>>

\* A Secondary with a non-empty table answers a request that has no address
\* list and a mismatching session id.
C2_Witness ==
    /\ MlrHandled
    /\ H.req.confirmablePost
    /\ bbrState = "SECONDARY"
    /\ ~H.req.addresses.present
    /\ H.req.sessionId # NoTlv
    /\ H.req.sessionId # commissionerSessionId
    /\ H.tableBefore # {}
    /\ Len(meshOut) = 1
    /\ ResponseStatus = "MlrBbrNotPrimary"

\* --------------------------------------------------------------------- C3
\* The table holds the address: its registration by the request succeeded.
InTable(a) == a \in TableAddresses(mMulticastListenersTable)

\* The occurrences of the request's addresses that were registered, in
\* request order.
Succeeded(h) == SelectSeq(h.req.addresses.list, InTable)

\* C3 as stated: the addresses of the backbone notification appear in the
\* order in which they appear in the request's address list ([A,B] gives [A,B]).
C3_AsStated ==
    (MlrHandled /\ backboneOut # <<>>) => Forwarded = Succeeded(H)

\* C3, amended: the backbone notification carries the registered addresses
\* in the reverse of their order in the request ([A,B] gives [B,A]).
C3_ReverseOrder ==
    (MlrHandled /\ backboneOut # <<>>) => Forwarded = Reverse(Succeeded(H))

\* A request [a, b] with a # b, both registered and forwarded as [b, a].
C3_Witness ==
    /\ MlrHandled
    /\ Len(H.req.addresses.list) = 2
    /\ H.req.addresses.list[1] # H.req.addresses.list[2]
    /\ Len(backboneOut) = 1
    /\ Forwarded = <<H.req.addresses.list[2], H.req.addresses.list[1]>>

\* --------------------------------------------------------------------- C4
Malformed(req) ==
    \/ ~req.confirmablePost
    \/ ~req.addresses.present
    \/ req.addresses.trailing # 0
    \/ Len(req.addresses.list) > kIPv6AddressesNumMax

\* C4 as stated: a malformed MLR request (not a confirmable POST, no address
\* list, a list length that is no multiple of the address size, more than
\* kIPv6AddressesNumMax addresses) gets no response.  (Read in its favour: of
\* the requests that no earlier check answers.)
C4_AsStated ==
    (/\ MlrHandled
     /\ ~H.isSpecifiedBefore
     /\ IsPrimary
     /\ SessionPasses(H.req)
     /\ Malformed(H.req))
        => meshOut = <<>>

\* C4, amended: a request that is not a confirmable POST gets no response,
\* and so does a confirmable POST without address list that passes the hook,
\* primary and session checks; an address list of a length that is no multiple
\* of the address size, or of more than kIPv6AddressesNumMax addresses, is
\* answered GeneralFailure without a failed-address list, the table unchanged
\* and no backbone notification sent.
C4_MalformedRequests ==
    MlrHandled =>
        /\ ~H.req.confirmablePost =>
              /\ meshOut = <<>>
              /\ backboneOut = <<>>
              /\ mMulticastListenersTable = H.tableBefore
        /\ (ReachesAddressList(H) /\ ~H.req.addresses.present) =>
              /\ meshOut = <<>>
              /\ backboneOut = <<>>
              /\ mMulticastListenersTable = H.tableBefore
        /\ (/\ ReachesAddressList(H)
            /\ H.req.addresses.present
            /\ ~WellFormed(H.req.addresses)) =>
              /\ Len(meshOut) = 1
              /\ ResponseStatus = "MlrGeneralFailure"
              /\ ResponseAddresses = <<>>
              /\ backboneOut = <<>>
              /\ mMulticastListenersTable = H.tableBefore

\* A list of one address more than allowed, of an address the table has room
\* for, is answered GeneralFailure.
C4_Witness ==
    /\ MlrHandled
    /\ ReachesAddressList(H)
    /\ H.req.addresses.present
    /\ H.req.addresses.trailing = 0
    /\ Len(H.req.addresses.list) = kIPv6AddressesNumMax + 1
    /\ AllAcceptable(H.req.addresses.list)
    /\ H.tableBefore = {}
    /\ Len(meshOut) = 1
    /\ ResponseStatus = "MlrGeneralFailure"

\* --------------------------------------------------------------------- C5
\* C5: the Timeout TLV is taken into account only in a request that also
\* carries a Commissioner Session ID TLV equal to the registered one; every
\* other request that reaches the choice of the timeout uses the default MLR
\* timeout: it is not refused NoPersistent, it removes no address, and what it
\* registers expires, and is forwarded, with the default timeout.
C5_TimeoutNeedsSession ==
    (MlrHandled /\ ReachesTimeout(H)) =>
        /\ ~TimeoutConsidered(H.req) =>
              /\ H.locals.timeout = kMlrTimeoutDefault
              /\ Len(meshOut) = 1
              /\ ResponseStatus # "MlrNoPersistent"
              /\ TableAddresses(H.tableBefore)
                    \subseteq TableAddresses(mMulticastListenersTable)
              /\ \A a \in Range(Forwarded) :
                    Entry(a, kMlrTimeoutDefault) \in mMulticastListenersTable
              /\ backboneOut # <<>> => backboneOut[1].timeout = kMlrTimeoutDefault
        /\ TimeoutConsidered(H.req) =>
              /\ H.locals.timeout = EffectiveTimeout(H.req)
              /\ \A a \in Range(Forwarded) :
                    Entry(a, EffectiveTimeout(H.req)) \in mMulticastListenersTable

\* A request with Timeout TLV 0 and no session TLV refreshes an address that
\* the table held, with the default timeout.
C5_Witness ==
    /\ MlrHandled
    /\ ReachesTimeout(H)
    /\ H.req.sessionId = NoTlv
    /\ H.req.timeout = 0
    /\ now > 0
    /\ Len(H.req.addresses.list) = 1
    /\ H.req.addresses.list[1] \in TableAddresses(H.tableBefore)
    /\ Entry(H.req.addresses.list[1], kMlrTimeoutDefault) \in mMulticastListenersTable
    /\ Entry(H.req.addresses.list[1], kMlrTimeoutDefault) \notin H.tableBefore
    /\ Len(backboneOut) = 1

\* --------------------------------------------------------------------- C6
\* C6: a request whose considered timeout is UINT32_MAX is answered
\* NoPersistent, changes no entry of the table and sends no backbone
\* notification.
C6_NoPersistent ==
    (/\ MlrHandled
     /\ ReachesTimeout(H)
     /\ TimeoutConsidered(H.req)
     /\ H.req.timeout = UINT32_MAX)
        => /\ Len(meshOut) = 1
           /\ ResponseStatus = "MlrNoPersistent"
           /\ ResponseAddresses = <<>>
           /\ mMulticastListenersTable = H.tableBefore
           /\ backboneOut = <<>>

\* Such a request for an address that the table holds and for one it has room for.
C6_Witness ==
    /\ MlrHandled
    /\ ReachesTimeout(H)
    /\ TimeoutConsidered(H.req)
    /\ H.req.timeout = UINT32_MAX
    /\ now > 0
    /\ Len(H.req.addresses.list) = 2
    /\ AllAcceptable(H.req.addresses.list)
    /\ Cardinality(H.tableBefore) = 1
    /\ H.req.addresses.list[1] \in TableAddresses(H.tableBefore)
    /\ H.req.addresses.list[2] \notin TableAddresses(H.tableBefore)
    /\ ResponseStatus = "MlrNoPersistent"

\* --------------------------------------------------------------------- C7
\* What the handler answers to the same request with another Timeout TLV.
ResponseWithTimeout(h, t) ==
    ResponseAtExit(MlrLocalsAtExit([h.req EXCEPT !.timeout = t], h.tableBefore, now,
                                   IsPrimary, commissionerSessionId,
                                   h.isSpecifiedBefore, mMlrResponseStatus))

\* C7: a considered timeout t, 0 < t < UINT32_MAX, is replaced by
\* min(max(t, MinTimeout), MaxTimeout): the timeout of the table expiry and of
\* the backbone notification lies in [MinTimeout, MaxTimeout]; the response is
\* the one that the already clamped timeout gets; a considered timeout of 0
\* stays 0.
C7_TimeoutNormalized ==
    (MlrHandled /\ ReachesTimeout(H) /\ TimeoutConsidered(H.req)) =>
        /\ H.req.timeout \notin {0, UINT32_MAX} =>
              /\ H.locals.timeout = Clamp(H.req.timeout)
              /\ H.locals.timeout >= kMlrTimeoutMin
              /\ H.locals.timeout <= kMlrTimeoutMax
              /\ \A a \in Range(Forwarded) :
                    Entry(a, Clamp(H.req.timeout)) \in mMulticastListenersTable
              /\ backboneOut # <<>> => backboneOut[1].timeout = Clamp(H.req.timeout)
              /\ meshOut = ResponseWithTimeout(H, Clamp(H.req.timeout))
        /\ H.req.timeout = 0 =>
              /\ H.locals.timeout = 0
              /\ backboneOut = <<>>
              /\ \A a \in Range(H.req.addresses.list) : ~InTable(a)

\* A considered timeout of MaxTimeout + 1000 registers and forwards with MaxTimeout.
C7_Witness ==
    /\ MlrHandled
    /\ ReachesTimeout(H)
    /\ TimeoutConsidered(H.req)
    /\ H.req.timeout = kMlrTimeoutMax + 1000
    /\ now > 0
    /\ Len(backboneOut) = 1
    /\ backboneOut[1].timeout = kMlrTimeoutMax
    /\ Entry(Forwarded[1], kMlrTimeoutMax) \in mMulticastListenersTable

\* --------------------------------------------------------------------- C8
\* C8: a request with effective timeout 0 removes every listed address from
\* the table, held or not, and nothing else; it is answered Success without a
\* failed-address list, and no backbone notification is sent.
C8_ZeroTimeoutRemoves ==
    (MlrHandled /\ ReachesTimeout(H) /\ EffectiveTimeout(H.req) = 0) =>
        /\ mMulticastListenersTable =
              {e \in H.tableBefore : e.address \notin Range(H.req.addresses.list)}
        /\ Len(meshOut) = 1
        /\ ResponseStatus = "MlrSuccess"
        /\ ~meshOut[1].hasAddressesTlv
        /\ ResponseAddresses = <<>>
        /\ backboneOut = <<>>

\* Two addresses removed by one request: one that the table held, next to an
\* entry that stays, and one that it did not hold.
C8_Witness ==
    /\ MlrHandled
    /\ ReachesTimeout(H)
    /\ EffectiveTimeout(H.req) = 0
    /\ Len(H.req.addresses.list) = 2
    /\ Cardinality(H.tableBefore) = 2
    /\ H.req.addresses.list[1] \notin TableAddresses(H.tableBefore)
    /\ H.req.addresses.list[2] \in TableAddresses(H.tableBefore)
    /\ Cardinality(mMulticastListenersTable) = 1
    /\ ResponseStatus = "MlrSuccess"

\* --------------------------------------------------------------------- C9
\* The request reaches the address loop with a timeout that is not 0.
Registers(h) == ReachesLoop(h) /\ EffectiveTimeout(h.req) # 0

\* The positions of the request's addresses whose registration failed.
Failing(h) == {i \in DOMAIN h.req.addresses.list : ~InTable(h.req.addresses.list[i])}

FirstFailing(h) == CHOOSE i \in Failing(h) : \A j \in Failing(h) : i <= j

\* The status after the first k addresses of the request: that of the same
\* request cut after its k-th address.
StatusAfter(h, k) ==
    MlrLocalsAtExit([h.req EXCEPT !.addresses.list = SubSeq(h.req.addresses.list, 1, k)],
                    h.tableBefore, now, IsPrimary, commissionerSessionId,
                    h.isSpecifiedBefore, mMlrResponseStatus).status

\* C9: the status of the response is set by the first address whose add fails
\* (Invalid for an invalid argument, NoResources for a full table) and never
\* changes after that, whatever the later addresses do; it is Success exactly
\* when no address failed.
C9_FirstErrorSticks ==
    (MlrHandled /\ Registers(H)) =>
        /\ Len(meshOut) = 1
        /\ (ResponseStatus = "MlrSuccess") <=> (Failing(H) = {})
        /\ Failing(H) # {} =>
              ResponseStatus =
                  IF IsMulticastLargerThanRealmLocal(H.req.addresses.list[FirstFailing(H)])
                  THEN "MlrNoResources"
                  ELSE "MlrInvalid"
        /\ \A k \in 0..Len(H.req.addresses.list) :
              StatusAfter(H, k) # "MlrSuccess" => ResponseStatus = StatusAfter(H, k)

\* A full table: the first address fails for lack of room, the second one is
\* invalid, and the status stays NoResources.
C9_Witness ==
    /\ MlrHandled
    /\ Registers(H)
    /\ Len(H.req.addresses.list) = 2
    /\ IsMulticastLargerThanRealmLocal(H.req.addresses.list[1])
    /\ ~IsMulticastLargerThanRealmLocal(H.req.addresses.list[2])
    /\ Failing(H) = {1, 2}
    /\ ResponseStatus = "MlrNoResources"

\* -------------------------------------------------------------------- C10
\* The addresses that the table holds once the addresses before position i
\* of the request are processed.
HeldBefore(h, i) ==
    TableAddresses(h.tableBefore)
        \cup {h.req.addresses.list[j] : j \in {k \in 1..(i - 1) : InTable(h.req.addresses.list[k])}}

NotInTable(a) == ~InTable(a)

\* C10: each address is applied on its own.  An acceptable address is
\* registered when the table holds it or has a free entry at its turn, and
\* fails otherwise; the registered addresses are forwarded, the failed ones
\* are reported, with status NoResources when no address is invalid; what the
\* request registered before an overflow stays, as does every other entry.
C10_CapacityPerAddress ==
    (MlrHandled /\ Registers(H)) =>
        LET list == H.req.addresses.list
        IN  /\ \A i \in DOMAIN list :
                  IsMulticastLargerThanRealmLocal(list[i]) =>
                      (InTable(list[i]) <=>
                          \/ list[i] \in HeldBefore(H, i)
                          \/ Cardinality(HeldBefore(H, i)) < kMulticastListenersTableSize)
            /\ \A a \in Range(list) :
                  InTable(a) =>
                      /\ Entry(a, EffectiveTimeout(H.req)) \in mMulticastListenersTable
                      /\ a \in Range(Forwarded)
            /\ \A e \in H.tableBefore :
                  e.address \notin Range(list) => e \in mMulticastListenersTable
            /\ TableAddresses(mMulticastListenersTable)
                  = TableAddresses(H.tableBefore) \cup {a \in Range(list) : InTable(a)}
            /\ ResponseAddresses = SelectSeq(list, NotInTable)
            /\ (Failing(H) # {} /\ AllAcceptable(list)) => ResponseStatus = "MlrNoResources"

\* One free entry and two new addresses: the first is registered and
\* forwarded, the second is reported with NoResources.
C10_Witness ==
    /\ MlrHandled
    /\ Registers(H)
    /\ Cardinality(H.tableBefore) = kMulticastListenersTableSize - 1
    /\ Len(H.req.addresses.list) = 2
    /\ AllAcceptable(H.req.addresses.list)
    /\ Range(H.req.addresses.list) \cap TableAddresses(H.tableBefore) = {}
    /\ H.req.addresses.list[1] # H.req.addresses.list[2]
    /\ InTable(H.req.addresses.list[1])
    /\ Forwarded = <<H.req.addresses.list[1]>>
    /\ ResponseAddresses = <<H.req.addresses.list[2]>>
    /\ ResponseStatus = "MlrNoResources"
    /\ H.tableBefore \subseteq mMulticastListenersTable

\* -------------------------------------------------------------------- C11
\* C11: the response carries a failed-address list exactly when an address
\* failed; the list holds the addresses whose add failed, once for each
\* failing occurrence, in request order; a request without a failure is
\* answered with the status alone.
C11_FailedAddressList ==
    (MlrHandled /\ meshOut # <<>>) =>
        /\ Len(meshOut) = 1
        /\ meshOut[1].hasAddressesTlv <=> (ResponseAddresses # <<>>)
        /\ Registers(H) =>
              /\ ResponseAddresses = SelectSeq(H.req.addresses.list, NotInTable)
              /\ meshOut[1].hasAddressesTlv <=> (Failing(H) # {})
        /\ ~Registers(H) => ~meshOut[1].hasAddressesTlv
        /\ ResponseStatus = "MlrSuccess" => ~meshOut[1].hasAddressesTlv

\* Two different addresses fail and are reported in request order.
C11_Witness ==
    /\ MlrHandled
    /\ Registers(H)
    /\ Len(H.req.addresses.list) = 2
    /\ H.req.addresses.list[1] # H.req.addresses.list[2]
    /\ Failing(H) = {1, 2}
    /\ Len(meshOut) = 1
    /\ meshOut[1].hasAddressesTlv
    /\ ResponseAddresses = H.req.addresses.list

\* -------------------------------------------------------------------- C12
\* C12: a request produces a backbone notification exactly when one of its
\* addresses was registered, and then exactly one, with the registered
\* addresses, one for each registered occurrence, and the timeout that was
\* used for the expiry; this holds also when other addresses failed.
C12_OneNotification ==
    MlrHandled =>
        /\ Len(backboneOut) <= 1
        /\ (backboneOut # <<>>) <=>
              (Registers(H) /\ \E a \in Range(H.req.addresses.list) : InTable(a))
        /\ backboneOut # <<>> =>
              /\ Range(Forwarded) = {a \in Range(H.req.addresses.list) : InTable(a)}
              /\ Len(Forwarded) = Len(Succeeded(H))
              /\ backboneOut[1].timeout = EffectiveTimeout(H.req)
              /\ \A a \in Range(Forwarded) :
                    Entry(a, backboneOut[1].timeout) \in mMulticastListenersTable

\* One address is registered with a clamped timeout and forwarded, the other
\* one fails and the status is a failure.
C12_Witness ==
    /\ MlrHandled
    /\ Registers(H)
    /\ TimeoutConsidered(H.req)
    /\ H.req.timeout = 1
    /\ Len(H.req.addresses.list) = 2
    /\ Failing(H) = {1}
    /\ ResponseStatus # "MlrSuccess"
    /\ Len(backboneOut) = 1
    /\ Forwarded = <<H.req.addresses.list[2]>>
    /\ backboneOut[1].timeout = kMlrTimeoutMin

\* -------------------------------------------------------------------- C13
\* C13: registering an address that the table holds, with a timeout that is
\* not 0, sets its expiry to now + timeout and leaves one entry for it; it
\* does not fail, also when the table is full; a request of held addresses
\* only leaves the number of entries as it was and is answered Success
\* without a failed-address list.
C13_RefreshIdempotent ==
    (MlrHandled /\ Registers(H)) =>
        /\ \A a \in Range(H.req.addresses.list) \cap TableAddresses(H.tableBefore) :
              /\ Entry(a, EffectiveTimeout(H.req)) \in mMulticastListenersTable
              /\ Cardinality({e \in mMulticastListenersTable : e.address = a}) = 1
              /\ a \notin Range(ResponseAddresses)
        /\ Range(H.req.addresses.list) \subseteq TableAddresses(H.tableBefore) =>
              /\ Cardinality(mMulticastListenersTable) = Cardinality(H.tableBefore)
              /\ ResponseStatus = "MlrSuccess"
              /\ ResponseAddresses = <<>>

\* An address of a full table is registered again at a later time.
C13_Witness ==
    /\ MlrHandled
    /\ Registers(H)
    /\ now > 0
    /\ Cardinality(H.tableBefore) = kMulticastListenersTableSize
    /\ Len(H.req.addresses.list) = 1
    /\ H.req.addresses.list[1] \in TableAddresses(H.tableBefore)
    /\ Entry(H.req.addresses.list[1], EffectiveTimeout(H.req)) \notin H.tableBefore
    /\ Entry(H.req.addresses.list[1], EffectiveTimeout(H.req)) \in mMulticastListenersTable
    /\ Cardinality(mMulticastListenersTable) = kMulticastListenersTableSize
    /\ ResponseStatus = "MlrSuccess"

\* -------------------------------------------------------------------- C14
\* C14: a request of the Primary with a Commissioner Session ID TLV that
\* differs from the registered commissioner session id, or with one when no
\* commissioner session is registered, is answered GeneralFailure, with or
\* without address list; the table is unchanged and no backbone notification
\* is sent.
C14_SessionMismatch ==
    (/\ MlrHandled
     /\ H.req.confirmablePost
     /\ ~H.isSpecifiedBefore
     /\ IsPrimary
     /\ H.req.sessionId # NoTlv
     /\ H.req.sessionId # commissionerSessionId)
        => /\ Len(meshOut) = 1
           /\ ResponseStatus = "MlrGeneralFailure"
           /\ ResponseAddresses = <<>>
           /\ mMulticastListenersTable = H.tableBefore
           /\ backboneOut = <<>>

\* No commissioner session is registered and the request has a session TLV
\* and no address list.
C14_Witness ==
    /\ MlrHandled
    /\ H.req.confirmablePost
    /\ IsPrimary
    /\ commissionerSessionId = NoTlv
    /\ H.req.sessionId # NoTlv
    /\ ~H.req.addresses.present
    /\ H.tableBefore # {}
    /\ Len(meshOut) = 1
    /\ ResponseStatus = "MlrGeneralFailure"

\* ------------------------------------------------ vocabulary of DUA claims
\* HandleDuaRegistration has run and its response is not drained yet.
DuaHandled == handled # <<>> /\ handled[1].op = "DUA"

\* The request is a confirmable POST of a routing locator with the Target
\* and the ML-EID TLV.
PassesChecks(req) ==
    /\ req.peer.isRoutingLocator
    /\ req.confirmablePost
    /\ req.target.present
    /\ req.meshLocalIid # NoTlv

\* The reference-device hook was armed for the request.
HookAnswers(h) ==
    /\ h.isSpecifiedBefore
    /\ mDuaResponseTargetMlIid \in {0, h.req.meshLocalIid}

\* The request gets as far as the registration in the proxy table.
ReachesRegister(h) ==
    /\ PassesChecks(h.req)
    /\ ~HookAnswers(h)
    /\ IsPrimary
    /\ h.req.target.prefix = DomainPrefix

\* The response the handler sends for the request with a status.
DuaResponseWith(h, status) ==
    <<[kind |-> "DUA.rsp", status |-> status,
       target |-> [prefix |-> h.req.target.prefix, iid |-> h.req.target.iid]]>>

\* What the registration of the request asks the proxy table for.
Registration(h) ==
    [targetIid |-> h.req.target.iid, meshLocalIid |-> h.req.meshLocalIid,
     rloc16 |-> h.req.peer.locator,
     lastTransactionTime |-> h.req.lastTransactionTime]

\* The entries of the proxy table for a target.
EntriesOf(table, iid) == {e \in table : e.targetIid = iid}

\* -------------------------------------------------------------------- C15
\* C15: a DUA request that passes all checks makes one call of Register, with
\* the target IID, the mesh-local IID, the locator of the source and the last
\* transaction time if the request has one; the response has status Success,
\* Duplicate, NoResources or, for any other failure, GeneralFailure, by what
\* Register returned. No other request makes a call.
C15_OutcomeMapping ==
    DuaHandled =>
        /\ ReachesRegister(H) =>
              /\ H.locals.registerCalls = <<Registration(H)>>
              /\ H.locals.registerError = "NONE" =>
                    /\ meshOut = DuaResponseWith(H, kDuaSuccess)
                    /\ EntriesOf(mNdProxyTable, H.req.target.iid) = {Registration(H)}
              /\ H.locals.registerError = "DUPLICATED" =>
                    meshOut = DuaResponseWith(H, kDuaDuplicate)
              /\ H.locals.registerError = "NO_BUFS" =>
                    meshOut = DuaResponseWith(H, kDuaNoResources)
              /\ H.locals.registerError \notin {"NONE", "DUPLICATED", "NO_BUFS"} =>
                    meshOut = DuaResponseWith(H, kDuaGeneralFailure)
              /\ H.locals.registerError # "NONE" => mNdProxyTable = H.proxyBefore
        /\ ~ReachesRegister(H) => H.locals.registerCalls = <<>>

\* Register fails for another reason than a duplicate or the lack of room,
\* for a request without Last Transaction Time TLV.
C15_Witness ==
    /\ DuaHandled
    /\ ReachesRegister(H)
    /\ H.req.lastTransactionTime = NoTlv
    /\ H.locals.registerError = "FAILED"
    /\ meshOut = DuaResponseWith(H, kDuaGeneralFailure)

\* -------------------------------------------------------------------- C16
\* C16: a request that reaches the registration, for a target that the proxy
\* table holds with another mesh-local IID, is answered Duplicate and the
\* proxy table is as it was.
C16_Duplicate ==
    (/\ DuaHandled
     /\ ReachesRegister(H)
     /\ \E e \in H.proxyBefore :
           e.targetIid = H.req.target.iid /\ e.meshLocalIid # H.req.meshLocalIid)
        => /\ meshOut = DuaResponseWith(H, kDuaDuplicate)
           /\ mNdProxyTable = H.proxyBefore

\* The target is held with another mesh-local IID and another locator.
C16_Witness ==
    /\ DuaHandled
    /\ ReachesRegister(H)
    /\ \E e \in mNdProxyTable :
          /\ e.targetIid = H.req.target.iid
          /\ e.meshLocalIid # H.req.meshLocalIid
          /\ e.rloc16 # H.req.peer.locator
    /\ meshOut = DuaResponseWith(H, kDuaDuplicate)

\* -------------------------------------------------------------------- C17
\* C17: a DUA request whose source is not a routing locator, or that is not
\* a confirmable POST, or that lacks the Target or the ML-EID TLV, gets no
\* response, leaves the proxy table as it was and leaves an armed hook armed.
C17_SilentDrop ==
    (DuaHandled /\ ~PassesChecks(H.req)) =>
        /\ meshOut = <<>>
        /\ H.response = <<>>
        /\ mNdProxyTable = H.proxyBefore
        /\ mDuaResponseIsSpecified = H.isSpecifiedBefore

\* The hook is armed for any mesh-local IID and the source of the request is
\* not a routing locator.
C17_Witness ==
    /\ DuaHandled
    /\ ~H.req.peer.isRoutingLocator
    /\ H.req.confirmablePost
    /\ H.isSpecifiedBefore
    /\ mDuaResponseTargetMlIid = 0
    /\ mDuaResponseIsSpecified
    /\ mNdProxyTable # {}
    /\ meshOut = <<>>

\* -------------------------------------------------------------------- C18
\* C18: while this router is not primary, a DUA request that passes the
\* checks of the source, the method and the TLVs, and that the hook does not
\* answer, is answered NotPrimary with its target, whether or not the target
\* is of the domain; while it is primary, such a request for a target that is
\* not of the domain is answered Invalid; the proxy table is as it was.
C18_NotPrimaryThenInvalid ==
    (DuaHandled /\ PassesChecks(H.req) /\ ~HookAnswers(H)) =>
        /\ ~IsPrimary =>
              /\ meshOut = DuaResponseWith(H, kDuaNotPrimary)
              /\ mNdProxyTable = H.proxyBefore
        /\ (IsPrimary /\ H.req.target.prefix # DomainPrefix) =>
              /\ meshOut = DuaResponseWith(H, kDuaInvalid)
              /\ mNdProxyTable = H.proxyBefore

\* A router that is not primary gets a request for a target that is not of
\* the domain.
C18_Witness ==
    /\ DuaHandled
    /\ PassesChecks(H.req)
    /\ ~HookAnswers(H)
    /\ bbrState = "SECONDARY"
    /\ H.req.target.prefix = OtherPrefix
    /\ mNdProxyTable # {}
    /\ meshOut = DuaResponseWith(H, kDuaNotPrimary)

\* ------------------------------------------ vocabulary of lifecycle claims
\* HandleNotifierEvents has handled a state change and nothing ran since.
EventHandled == handled # <<>> /\ handled[1].op = "EVENT"

\* -------------------------------------------------------------------- C19
\* C19 as stated: after the handling of a change to a state that is not
\* Primary, Secondary as well as Disabled, the multicast listeners table is
\* empty.
C19_AsStated ==
    (EventHandled /\ H.state # "PRIMARY") => mMulticastListenersTable = {}

\* C19: the handling of a state change empties the multicast listeners table
\* if the state is Disabled, and leaves the table as it was if the state is
\* Secondary or Primary.
C19_ClearedOnDisabled ==
    EventHandled =>
        /\ H.state = "DISABLED" => mMulticastListenersTable = {}
        /\ H.state # "DISABLED" => mMulticastListenersTable = H.tableBefore

\* The Primary that holds listeners becomes Secondary.
C19_Witness ==
    /\ EventHandled
    /\ H.stateBefore = "PRIMARY"
    /\ H.state = "SECONDARY"
    /\ bbrState = "SECONDARY"
    /\ H.tableBefore # {}
    /\ mMulticastListenersTable = H.tableBefore

\* -------------------------------------------------------------------- C20
\* C20: the handling of the state change while the state is Disabled removes
\* both resources, stops the timer, calls Stop of the backbone TMF agent,
\* which is stopped unless the call fails, and empties the multicast
\* listeners table whatever it held; the ND proxy table keeps its entries.
C20_Disable ==
    (EventHandled /\ H.state = "DISABLED") =>
        /\ ~mlrResourceAdded
        /\ ~duaResourceAdded
        /\ ~mTimerRunning
        /\ H.agentCall = "Stop"
        /\ H.agentOk => ~backboneTmfRunning
        /\ mMulticastListenersTable = {}
        /\ mNdProxyTable = H.proxyBefore

\* An enabled manager with listeners, proxy entries, a running timer and a
\* started backbone TMF agent is disabled.
C20_Witness ==
    /\ EventHandled
    /\ H.state = "DISABLED"
    /\ H.agentOk
    /\ H.lifeBefore.mlrResourceAdded
    /\ H.lifeBefore.duaResourceAdded
    /\ H.lifeBefore.mTimerRunning
    /\ H.lifeBefore.backboneTmfRunning
    /\ H.tableBefore # {}
    /\ H.proxyBefore # {}
    /\ mNdProxyTable = H.proxyBefore
    /\ mMulticastListenersTable = {}
    /\ ~backboneTmfRunning

\* The members that HandleNotifierEvents sets, as a record.
Life ==
    [mlrResourceAdded |-> mlrResourceAdded, duaResourceAdded |-> duaResourceAdded,
     mTimerRunning |-> mTimerRunning, mTimerFireTime |-> mTimerFireTime,
     backboneTmfRunning |-> backboneTmfRunning]

\* Both resources are added and the timer is running.
Enabled(life) == life.mlrResourceAdded /\ life.duaResourceAdded /\ life.mTimerRunning

\* No resource is added and the timer is stopped.
Disabled(life) == ~life.mlrResourceAdded /\ ~life.duaResourceAdded /\ ~life.mTimerRunning

\* -------------------------------------------------------------------- C21
\* C21: the handling of the state change while the state is not Disabled
\* leaves both resources added and the timer running and calls Start of the
\* backbone TMF agent, which is started if the call succeeds; if the call
\* fails the resources stay added and the timer stays running; the multicast
\* listeners table is as it was.
C21_Enable ==
    (EventHandled /\ H.state # "DISABLED") =>
        /\ mlrResourceAdded
        /\ duaResourceAdded
        /\ mTimerRunning
        /\ H.agentCall = "Start"
        /\ H.agentOk => backboneTmfRunning
        /\ ~H.agentOk => backboneTmfRunning = H.lifeBefore.backboneTmfRunning
        /\ mMulticastListenersTable = H.tableBefore

\* A disabled manager is enabled and the backbone TMF agent fails to start.
C21_Witness ==
    /\ EventHandled
    /\ H.state # "DISABLED"
    /\ ~H.agentOk
    /\ Disabled(H.lifeBefore)
    /\ ~H.lifeBefore.backboneTmfRunning
    /\ Enabled(Life)
    /\ mTimerFireTime = TimeAdd(now, kTimerInterval)
    /\ ~backboneTmfRunning

\* -------------------------------------------------------------------- C22
\* C22: the handling of a state change to a state that is not Disabled, by a
\* manager with both resources added and the timer running, leaves the
\* resources, the timer and its fire time, and both tables as they were and a
\* started backbone TMF agent started; the handling of a state change to
\* Disabled by a manager without resources and with the timer stopped and the
\* table empty leaves them so.
C22_Idempotent ==
    EventHandled =>
        /\ (H.state # "DISABLED" /\ Enabled(H.lifeBefore)) =>
              /\ Enabled(Life)
              /\ mTimerFireTime = H.lifeBefore.mTimerFireTime
              /\ H.lifeBefore.backboneTmfRunning => backboneTmfRunning
              /\ mMulticastListenersTable = H.tableBefore
              /\ mNdProxyTable = H.proxyBefore
        /\ (H.state = "DISABLED" /\ Disabled(H.lifeBefore)) =>
              /\ Disabled(Life)
              /\ mTimerFireTime = H.lifeBefore.mTimerFireTime
              /\ ~H.lifeBefore.backboneTmfRunning => ~backboneTmfRunning
              /\ mMulticastListenersTable = {}
              /\ mNdProxyTable = H.proxyBefore

\* The event is handled again by an enabled manager, at a time at which a
\* start of the timer would give another fire time.
C22_Witness ==
    /\ EventHandled
    /\ H.state # "DISABLED"
    /\ Enabled(H.lifeBefore)
    /\ H.lifeBefore.backboneTmfRunning
    /\ TimeAdd(now, kTimerInterval) # H.lifeBefore.mTimerFireTime
    /\ mTimerFireTime = H.lifeBefore.mTimerFireTime
    /\ Enabled(Life)

\* --------------------------------------------- vocabulary of sweep claims
\* HandleTimer has run and nothing ran since.
TimerHandled == handled # <<>> /\ handled[1].op = "TIMER"

\* -------------------------------------------------------------------- C23
\* C23: a fire of the timer removes from the multicast listeners table the
\* entries with an expiry at or before now and no other entry, and starts the
\* timer for kTimerInterval from now; so an entry is in the table after every
\* sweep before its expiry and in no table after a sweep at or after it.
C23_ExpirySweep ==
    TimerHandled =>
        /\ mMulticastListenersTable \subseteq H.tableBefore
        /\ \A e \in H.tableBefore :
              (e \in mMulticastListenersTable) <=> (now < e.expireTime)
        /\ mTimerRunning
        /\ mTimerFireTime = (now + kTimerInterval) % Uint32Modulus

\* A sweep removes an entry at its expiry and keeps an entry that expires
\* later.
C23_Witness ==
    /\ TimerHandled
    /\ \E e \in H.tableBefore : e.expireTime = now /\ e \notin mMulticastListenersTable
    /\ \E e \in H.tableBefore : e.expireTime > now /\ e \in mMulticastListenersTable
    /\ mTimerFireTime = now + kTimerInterval

\* -------------------------------------------------------------------- C28
\* The expiries that a request can set while the sweeps are followed.
SweepExpiries == {k * kTimerInterval : k \in 0..(MaxSweepTicks + kMlrTimeoutMax)}

\* A request has set the expiry t1 for a listener that the table held with
\* an earlier expiry.
RefreshedTo(a, t1) ==
    /\ MlrHandled
    /\ Registers(H)
    /\ \E i \in DOMAIN H.req.addresses.list : H.req.addresses.list[i] = a
    /\ \E e \in H.tableBefore : e.address = a /\ e.expireTime < t1
    /\ Entry(a, EffectiveTimeout(H.req)).expireTime = t1

\* A sweep has run before t1 on a table that held the listener.
SweptBefore(a, t1) ==
    /\ TimerHandled
    /\ now < t1
    /\ a \in TableAddresses(H.tableBefore)

QueryHandled == handled # <<>> /\ handled[1].op = "QUERY"

\* C24: ShouldForwardDuaToBackbone returns true exactly when this router is
\* primary, the address is of the domain, its IID is not registered in the
\* proxy table, and the resolution of the address fails or gives the RLOC16
\* of this router; it changes neither table nor the timer.
C24_ShouldForward ==
    QueryHandled =>
        /\ H.result <=>
              /\ bbrState = "PRIMARY"
              /\ H.address.prefix = DomainPrefix
              /\ \A e \in mNdProxyTable : e.targetIid # H.address.iid
              /\ (H.resolved.error # "NONE" \/ H.resolved.rloc16 = H.ownRloc16)
        /\ mNdProxyTable = H.proxyBefore
        /\ mMulticastListenersTable = H.tableBefore
        /\ Life = H.lifeBefore

\* The Primary with entries in both tables is asked about an address that is
\* not registered and that resolves to another router.
C24_Witness ==
    /\ QueryHandled
    /\ bbrState = "PRIMARY"
    /\ H.address.prefix = DomainPrefix
    /\ mNdProxyTable # {}
    /\ mMulticastListenersTable # {}
    /\ \A e \in mNdProxyTable : e.targetIid # H.address.iid
    /\ H.resolved.error = "NONE"
    /\ H.resolved.rloc16 # H.ownRloc16
    /\ ~H.result

\* -------------------------------------------------------------------- C25
\* ConfigNextMulticastListenerRegistrationResponse has returned.
MlrConfigured == handled # <<>> /\ handled[1].op = "CONFIG_MLR"

\* C25: ConfigNextMulticastListenerRegistrationResponse(s) arms the hook with
\* s, whatever it was armed with.  An armed hook answers a confirmable POST
\* with s and nothing else, whatever the role and the TLVs, leaves the table
\* as it was, sends no backbone notification and is disarmed.  A request that
\* is not a confirmable POST leaves the hook as it is and a request that
\* finds the hook disarmed is not answered by it.
C25_MlrHook ==
    /\ MlrConfigured =>
          /\ mMlrResponseIsSpecified
          /\ mMlrResponseStatus = H.aStatus
    /\ (MlrHandled /\ H.req.confirmablePost /\ H.isSpecifiedBefore) =>
          /\ meshOut = <<[status |-> mMlrResponseStatus, hasAddressesTlv |-> FALSE,
                          addresses |-> <<>>]>>
          /\ mMulticastListenersTable = H.tableBefore
          /\ backboneOut = <<>>
          /\ ~mMlrResponseIsSpecified
    /\ (MlrHandled /\ ~H.req.confirmablePost) =>
          /\ mMlrResponseIsSpecified = H.isSpecifiedBefore
          /\ meshOut = <<>>
    /\ (MlrHandled /\ ~H.isSpecifiedBefore) =>
          /\ ~mMlrResponseIsSpecified
          /\ (H.req.confirmablePost /\ ~IsPrimary) =>
                (Len(meshOut) = 1 /\ ResponseStatus = "MlrBbrNotPrimary")
          /\ (H.req.confirmablePost /\ IsPrimary /\ H.req.timeout = NoTlv
              /\ H.req.addresses.present /\ H.req.addresses.trailing = 0
              /\ H.req.addresses.list # <<>>
              /\ H.tableBefore = {}
              /\ IsMulticastLargerThanRealmLocal(H.req.addresses.list[1])) =>
                (Len(meshOut) = 1 /\ ResponseStatus = "MlrSuccess"
                 /\ mMulticastListenersTable # {} /\ Len(backboneOut) = 1)

\* A router that is not primary and holds listeners answers a request
\* without address list with the configured status.
C25_Witness ==
    /\ MlrHandled
    /\ H.req.confirmablePost
    /\ H.isSpecifiedBefore
    /\ ~IsPrimary
    /\ ~H.req.addresses.present
    /\ H.tableBefore # {}
    /\ mMlrResponseStatus = "MlrNoResources"
    /\ Len(meshOut) = 1
    /\ ResponseStatus = "MlrNoResources"
    /\ ~mMlrResponseIsSpecified

\* -------------------------------------------------------------------- C26
\* ConfigNextDuaRegistrationResponse has returned.
DuaConfigured == handled # <<>> /\ handled[1].op = "CONFIG_DUA"

\* The hook as it is now answers a request with this mesh-local IID.
WouldAnswer(meshLocalIid) ==
    DuaHookMatches(mDuaResponseIsSpecified, mDuaResponseTargetMlIid, meshLocalIid)

\* C26 as stated: after ConfigNextDuaRegistrationResponse(mlIid, s) the hook
\* answers the requests with the mesh-local IID mlIid, every request when
\* mlIid is absent, and no other request.
C26_AsStated ==
    DuaConfigured =>
        \A m \in MeshLocalIids :
            WouldAnswer(m) <=> (H.aMlIid = NoTlv \/ H.aMlIid = m)

\* C26: after ConfigNextDuaRegistrationResponse(mlIid, s) the hook is armed
\* with s for the requests with the mesh-local IID mlIid, and for every
\* request when mlIid is absent or the unspecified IID.  A request that
\* passes the checks of the source, the method and the TLVs and that the hook
\* is armed for is answered with an empty acknowledgment of code s if s is at
\* least kCodeResponseMin and else with a response of status s and its target;
\* the proxy table is as it was and the hook is disarmed.  A request that the
\* hook is not armed for leaves it armed and is handled as without hook.
C26_DuaHook ==
    /\ DuaConfigured =>
          /\ mDuaResponseIsSpecified
          /\ mDuaResponseStatus = H.aStatus
          /\ \A m \in MeshLocalIids :
                WouldAnswer(m) <=> (H.aMlIid = NoTlv \/ H.aMlIid = 0 \/ H.aMlIid = m)
    /\ (DuaHandled /\ PassesChecks(H.req) /\ HookAnswers(H)) =>
          /\ meshOut = IF mDuaResponseStatus >= kCodeResponseMin
                       THEN <<[kind |-> "ACK", code |-> mDuaResponseStatus]>>
                       ELSE DuaResponseWith(H, mDuaResponseStatus)
          /\ mNdProxyTable = H.proxyBefore
          /\ H.locals.registerCalls = <<>>
          /\ ~mDuaResponseIsSpecified
    /\ (DuaHandled /\ PassesChecks(H.req) /\ ~HookAnswers(H)) =>
          /\ mDuaResponseIsSpecified = H.isSpecifiedBefore
          /\ ~IsPrimary => meshOut = DuaResponseWith(H, kDuaNotPrimary)
          /\ (IsPrimary /\ H.req.target.prefix # DomainPrefix) =>
                meshOut = DuaResponseWith(H, kDuaInvalid)
          /\ ReachesRegister(H) => H.locals.registerCalls = <<Registration(H)>>

\* The hook, configured with the least CoAP response code for the mesh-local
\* IID of the request, answers the Primary's request for a new target.
C26_Witness ==
    /\ DuaHandled
    /\ PassesChecks(H.req)
    /\ H.isSpecifiedBefore
    /\ mDuaResponseTargetMlIid = H.req.meshLocalIid
    /\ mDuaResponseStatus = kCodeResponseMin
    /\ IsPrimary
    /\ H.req.target.prefix = DomainPrefix
    /\ mNdProxyTable = {}
    /\ meshOut = <<[kind |-> "ACK", code |-> kCodeResponseMin]>>
    /\ ~mDuaResponseIsSpecified

\* -------------------------------------------------------------------- C27
\* C27: whether or not the MLR response and the backbone notification are
\* allocated and sent, the listeners that the request registers are in the
\* table with their new expiry, the notification for them is built and is
\* sent if the backbone transport takes it, and the response is sent if the
\* mesh transport takes it; whether or not the DUA response is sent, the
\* target that Register has accepted is in the proxy table.
C27_NoRollback ==
    /\ (MlrHandled /\ Registers(H)) =>
          /\ \A a \in Range(H.req.addresses.list) :
                (IsMulticastLargerThanRealmLocal(a)
                 /\ HasRoomFor(H.tableBefore, <<a>>)) =>
                    Entry(a, EffectiveTimeout(H.req)) \in mMulticastListenersTable
          /\ H.response # <<>>
          /\ meshOut = IF H.meshSendOk THEN H.response ELSE <<>>
          /\ (\E a \in Range(H.req.addresses.list) : InTable(a)) => H.notification # <<>>
          /\ backboneOut = IF H.backboneSendOk THEN H.notification ELSE <<>>
    /\ (DuaHandled /\ ReachesRegister(H) /\ H.locals.registerError = "NONE") =>
          /\ Registration(H) \in mNdProxyTable
          /\ H.response = DuaResponseWith(H, kDuaSuccess)
          /\ meshOut = IF H.sendOk THEN H.response ELSE <<>>

\* The response to a request that registers a new listener is not sent and
\* the notification is.
C27_Witness ==
    /\ MlrHandled
    /\ Registers(H)
    /\ ~H.meshSendOk
    /\ H.backboneSendOk
    /\ meshOut = <<>>
    /\ \E a \in Range(H.req.addresses.list) :
          /\ a \notin TableAddresses(H.tableBefore)
          /\ Entry(a, EffectiveTimeout(H.req)) \in mMulticastListenersTable
          /\ backboneOut # <<>>
          /\ Forwarded = <<a>>

\* -------------------------------------------------------------------- C29
\* C29: HandleMulticastListenerRegistration sends no response exactly for a
\* request that is not a confirmable POST and for a request that passes the
\* hook, the role and the session check and has no IPv6 Addresses TLV; then
\* the table and the hook are as they were and no backbone notification is
\* built or sent.
C29_NoResponseNoChange ==
    MlrHandled =>
        /\ (meshOut = <<>>) <=>
              \/ ~H.req.confirmablePost
              \/ ReachesAddressList(H) /\ ~H.req.addresses.present
        /\ meshOut = <<>> =>
              /\ mMulticastListenersTable = H.tableBefore
              /\ H.locals.successAddressNum = 0
              /\ H.notification = <<>>
              /\ backboneOut = <<>>
              /\ mMlrResponseIsSpecified = H.isSpecifiedBefore

\* A request that is not a confirmable POST and lists a listener of the
\* table with the timeout 0 of the commissioner.
C29_Witness ==
    /\ MlrHandled
    /\ ~H.req.confirmablePost
    /\ IsPrimary
    /\ SessionMatches(H.req)
    /\ H.req.timeout = 0
    /\ H.req.addresses.present
    /\ H.req.addresses.list # <<>>
    /\ H.req.addresses.list[1] \in TableAddresses(H.tableBefore)
    /\ meshOut = <<>>
    /\ backboneOut = <<>>
    /\ mMulticastListenersTable = H.tableBefore

\* -------------------------------------------------------------------- C30
\* C30: at the exit of the handler failedAddressNum + successAddressNum is at
\* most kIPv6AddressesNumMax, and it is the number of listed addresses after a
\* loop that registers; the counts only grow in the loop, so the failed
\* addresses, written from index 0, and the registered addresses, written
\* from the last index down, have no index in common and no write is outside
\* the array.  The count that SendBackboneMulticastListenerRegistration
\* asserts is within kIPv6AddressesNumMin..kIPv6AddressesNumMax and the
\* default case of the switch on the result of Add is not reached.
C30_SharedBuffer ==
    MlrHandled =>
        /\ H.locals.failedAddressNum + H.locals.successAddressNum <= kIPv6AddressesNumMax
        /\ Registers(H) =>
              H.locals.failedAddressNum + H.locals.successAddressNum
                 = Len(H.req.addresses.list)
        /\ {i \in 0..(kIPv6AddressesNumMax - 1) : i < H.locals.failedAddressNum}
              \cap {i \in 0..(kIPv6AddressesNumMax - 1) :
                       i >= kIPv6AddressesNumMax - H.locals.successAddressNum} = {}
        /\ \A i \in 0..(kIPv6AddressesNumMax - 1) :
              (i < H.locals.failedAddressNum
               \/ i >= kIPv6AddressesNumMax - H.locals.successAddressNum)
                 <=> H.locals.addresses[i] # Unwritten
        /\ ~H.locals.outOfBounds
        /\ ~H.locals.asserted
        /\ \A i \in DOMAIN H.notification :
              /\ H.notification[i].assertOk
              /\ Len(H.notification[i].addresses) \in
                    kIPv6AddressesNumMin..kIPv6AddressesNumMax

\* A request of kIPv6AddressesNumMax addresses of which the first is
\* registered and the last is refused fills the array from both ends.
C30_Witness ==
    /\ MlrHandled
    /\ Registers(H)
    /\ Len(H.req.addresses.list) = kIPv6AddressesNumMax
    /\ H.locals.failedAddressNum = 1
    /\ H.locals.successAddressNum = kIPv6AddressesNumMax - 1
    /\ H.locals.addresses[0] = H.req.addresses.list[kIPv6AddressesNumMax]
    /\ H.locals.addresses[kIPv6AddressesNumMax - 1] = H.req.addresses.list[1]
    /\ Len(backboneOut) = 1
    /\ backboneOut[1].assertOk

\* -------------------------------------------------------------------- C31
\* The number of positions of a list that hold the address.
Count(seq, a) == Cardinality({i \in DOMAIN seq : seq[i] = a})

\* The table once the first k addresses of the request are processed: that of
\* the same request cut after its k-th address.
TableAfter(h, k) ==
    MlrLocalsAtExit([h.req EXCEPT !.addresses.list = SubSeq(h.req.addresses.list, 1, k)],
                    h.tableBefore, now, IsPrimary, commissionerSessionId,
                    h.isSpecifiedBefore, mMlrResponseStatus).table

\* The add of the i-th address of the request, at its turn, returns no error.
AddSucceeds(h, i) ==
    LET a == h.req.addresses.list[i]
        held == TableAddresses(TableAfter(h, i - 1))
    IN  /\ IsMulticastLargerThanRealmLocal(a)
        /\ a \in held \/ Cardinality(held) < kMulticastListenersTableSize

\* C31: for a request that is processed with a timeout that is not 0, every
\* address occurrence of the request is in exactly one of the failed-address
\* list of the response and the address list of the backbone notification;
\* the lengths of the two lists add up to the number of addresses of the
\* request, and an address is forwarded only if its add succeeded.
C31_Partition ==
    (MlrHandled /\ Registers(H)) =>
        LET list == H.req.addresses.list
        IN  /\ Len(meshOut) = 1
            /\ Len(ResponseAddresses) + Len(Forwarded) = Len(list)
            /\ H.locals.failedAddressNum = Len(ResponseAddresses)
            /\ H.locals.successAddressNum = Len(Forwarded)
            /\ ~H.locals.outOfBounds
            /\ \A a \in Ip6Addresses \cup {Unwritten} :
                  /\ Count(ResponseAddresses, a) + Count(Forwarded, a) = Count(list, a)
                  /\ Count(ResponseAddresses, a) = 0 \/ Count(Forwarded, a) = 0
            /\ \A a \in Range(Forwarded) :
                  /\ \E i \in DOMAIN list : list[i] = a
                  /\ \A i \in DOMAIN list : list[i] = a => AddSucceeds(H, i)
                  /\ Entry(a, EffectiveTimeout(H.req)) \in mMulticastListenersTable
            /\ \A a \in Range(ResponseAddresses) :
                  \A i \in DOMAIN list : list[i] = a => ~AddSucceeds(H, i)

\* An address that the table refuses comes first and is reported, the address
\* after it is registered and forwarded.
C31_Witness ==
    /\ MlrHandled
    /\ Registers(H)
    /\ Len(H.req.addresses.list) = 2
    /\ ~IsMulticastLargerThanRealmLocal(H.req.addresses.list[1])
    /\ IsMulticastLargerThanRealmLocal(H.req.addresses.list[2])
    /\ ResponseAddresses = <<H.req.addresses.list[1]>>
    /\ Forwarded = <<H.req.addresses.list[2]>>
    /\ ResponseStatus = "MlrInvalid"

\* -------------------------------------------------------------------- C36
\* The IPv6 Addresses TLV is present and its value has length 0.
EmptyList(req) == req.addresses.present /\ AddressesLength(req.addresses) = 0

\* The answer to a request that changes nothing: this status alone, the table
\* as it was, no backbone notification.
AnsweredUnchanged(h, status) ==
    /\ Len(meshOut) = 1
    /\ ResponseStatus = status
    /\ ~meshOut[1].hasAddressesTlv
    /\ ResponseAddresses = <<>>
    /\ mMulticastListenersTable = h.tableBefore
    /\ backboneOut = <<>>

\* C36 as stated: a request with a present, empty address list that the
\* primary processes (a confirmable POST that passes the hook and session
\* checks) is answered with Success, whatever its timeout.
C36_AsStated ==
    (MlrHandled /\ ReachesAddressList(H) /\ EmptyList(H.req)) =>
        AnsweredUnchanged(H, "MlrSuccess")

\* C36, amended: the empty list passes the address-list checks, and the
\* request is answered with Success unless its Timeout TLV is considered and
\* is UINT32_MAX, when the status is NoPersistent; in both cases there is no
\* failed-address list, the table is unchanged and no notification is sent.
\* A notification never carries fewer than kIPv6AddressesNumMin addresses.
C36_EmptyList ==
    /\ (MlrHandled /\ ReachesAddressList(H) /\ EmptyList(H.req)) =>
          /\ ReachesTimeout(H)
          /\ H.locals.error = "NONE"
          /\ H.locals.failedAddressNum = 0 /\ H.locals.successAddressNum = 0
          /\ IF EffectiveTimeout(H.req) = UINT32_MAX
             THEN AnsweredUnchanged(H, "MlrNoPersistent")
             ELSE AnsweredUnchanged(H, "MlrSuccess")
    /\ (MlrHandled /\ backboneOut # <<>>) =>
          /\ Len(Forwarded) >= kIPv6AddressesNumMin
          /\ backboneOut[1].assertOk

\* An empty list with timeout 0 arrives while the table holds listeners: the
\* answer is Success and the listeners stay.
C36_Witness ==
    /\ MlrHandled
    /\ ReachesLoop(H)
    /\ EmptyList(H.req)
    /\ EffectiveTimeout(H.req) = 0
    /\ H.tableBefore # {}
    /\ AnsweredUnchanged(H, "MlrSuccess")

\* -------------------------------------------------------------------- C35
\* This step is a run of the handler of this operation.
Handles(op) == handled = <<>> /\ handled' # <<>> /\ handled'[1].op = op

\* C35: HandleMulticastListenerRegistration never changes the proxy table;
\* HandleDuaRegistration never changes the multicast listener table and never
\* sends a backbone notification; a handled request produces at most one
\* mesh response, and an MLR request at most one backbone notification.
C35_Frame ==
    [][/\ Handles("MLR") =>
             /\ mNdProxyTable' = mNdProxyTable
             /\ Len(meshOut') <= 1
             /\ Len(backboneOut') <= 1
       /\ Handles("DUA") =>
             /\ mMulticastListenersTable' = mMulticastListenersTable
             /\ backboneOut' = <<>>
             /\ Len(meshOut') <= 1]_vars

\* A DUA request is registered and answered while the multicast listener
\* table holds the two listeners of an earlier MLR request.
C35_Witness ==
    /\ DuaHandled
    /\ H.locals.registerError = "NONE"
    /\ mNdProxyTable # H.proxyBefore
    /\ Cardinality(mMulticastListenersTable) = 2
    /\ Len(meshOut) = 1
    /\ backboneOut = <<>>

\* -------------------------------------------------------------------- C34
\* The DUA request for this target of the domain is answered with Success.
AnsweredSuccess(d) ==
    /\ DuaHandled
    /\ H.req.target.present
    /\ H.req.target.iid = d
    /\ meshOut = <<DuaResponse([prefix |-> DomainPrefix, iid |-> d], kDuaSuccess)>>

\* ShouldForwardDuaToBackbone has returned for the address of this target.
Queried(d) ==
    QueryHandled /\ H.address = [prefix |-> DomainPrefix, iid |-> d]

\* C34: no operation of the manager removes an entry of the proxy table: over
\* MLR requests, DUA requests, timer fires, enable and disable events and
\* queries the set of registered targets never shrinks; once a DUA request
\* for a target is answered with Success, ShouldForwardDuaToBackbone returns
\* false for the address of that target in every later state.
C34_NeverRemoved ==
    /\ [][ProxyTargets(mNdProxyTable) \subseteq ProxyTargets(mNdProxyTable')]_vars
    /\ \A d \in TargetIids :
          [](AnsweredSuccess(d) => [](Queried(d) => ~H.result))

\* After a disable event has emptied the multicast listener table, the
\* Primary is asked about a registered target whose address does not
\* resolve, while the proxy table is full: the answer is false.
C34_Witness ==
    /\ \E d \in TargetIids : Queried(d) /\ d \in ProxyTargets(mNdProxyTable)
    /\ Cardinality(mNdProxyTable) = kNdProxyTableSize
    /\ bbrState = "PRIMARY"
    /\ H.resolved.error # "NONE"
    /\ mMulticastListenersTable = {}
    /\ now > 0
    /\ ~H.result

\* -------------------------------------------------------------------- C32
\* The manager is Inactive: no state-changed event is handled yet, or the
\* last one that was handled found the state Disabled.
Inactive == ~mTimerRunning

\* C32: between events the expiry timer is running exactly when the last
\* handled state-changed event found the state not Disabled: it is stopped
\* at the start, every handled event sets it by the state that the event
\* finds, and no other step starts or stops it.  While the manager is
\* Inactive the multicast listener table is empty, the MLR requests being
\* delivered only while the handler is registered, which is exactly while
\* the timer is running.
C32_Lifecycle ==
    /\ Inactive /\ mMulticastListenersTable = {}
    /\ [][IF Handles("EVENT")
          THEN mTimerRunning' = (handled'[1].state # "DISABLED")
          ELSE mTimerRunning' = mTimerRunning]_vars
    /\ [](Inactive => mMulticastListenersTable = {})
    /\ [](mlrResourceAdded <=> mTimerRunning)

\* The state is Disabled already, but the event is not handled yet: the last
\* handled event found another state, the timer still runs, after a fire, and
\* the table still holds the listeners that were registered.
C32_Witness ==
    /\ Idle
    /\ bbrState = "DISABLED"
    /\ stateChangedPending
    /\ mTimerRunning
    /\ mlrResourceAdded
    /\ mTimerFireTime > kTimerInterval
    /\ Cardinality(mMulticastListenersTable) = 2

\* -------------------------------------------------------------------- C33
\* The last instant that the sweeps are followed to.
LastInstant == MaxSweepTicks * kTimerInterval

\* The expiries that are reached while the sweeps are followed.
ReachedExpiries == {t1 \in SweepExpiries : t1 <= LastInstant}

\* C33: while the manager stays Active the timer is set again by every fire,
\* for kTimerInterval from the fire, and an enable event that finds it running
\* leaves its fire time alone, so that the next fire is never more than
\* kTimerInterval away; from every instant before the last one a sweep
\* follows unless the manager is disabled, and a listener entry leaves the
\* table once its expiry is reached, by a sweep, by a request that replaces
\* it or by a disable event: no entry at or past its expiry outlives a fire.
C33_SweepLiveness ==
    /\ [][Handles("TIMER") =>
             /\ mTimerRunning'
             /\ mTimerFireTime' = TimeAdd(now, kTimerInterval)
             /\ \A e \in mMulticastListenersTable' : e.expireTime > now]_vars
    /\ [][(Handles("EVENT") /\ mTimerRunning /\ mTimerRunning') =>
             mTimerFireTime' = mTimerFireTime]_vars
    /\ [](mTimerRunning => mTimerFireTime <= now + kTimerInterval)
    /\ \A t \in ReachedExpiries \ {LastInstant} :
          (mTimerRunning /\ now = t) ~> (TimerHandled \/ ~mTimerRunning)
    /\ \A a \in Ip6Addresses, t1 \in ReachedExpiries :
          ([address |-> a, expireTime |-> t1] \in mMulticastListenersTable)
              ~> ([address |-> a, expireTime |-> t1] \notin mMulticastListenersTable)

\* A fire that comes one interval late, while the state is Secondary, removes
\* a listener whose expiry has passed and sets the timer from the fire.
C33_Witness ==
    /\ TimerHandled
    /\ bbrState = "SECONDARY"
    /\ H.fireTimeBefore < now
    /\ \E e \in H.tableBefore : e.expireTime < now /\ ~InTable(e.address)
    /\ mTimerFireTime = now + kTimerInterval

====
